---- MODULE Spec2Model ----
(***************************************************************************)
(* Procurement management: the financial computation engine of the        *)
(* Procurement entity (app/models.py), the access-control decorators      *)
(* (app/security.py), the procurement routes                              *)
(* (app/blueprints/procurements/routes.py) and the self-service and        *)
(* option routes (app/blueprints/settings/routes.py).                      *)
(*                                                                         *)
(* Decimal values are fixed-point integers, the unit fixed by the column: *)
(*   money (Numeric(12,2))            : cents            (10^-2)           *)
(*   percents (Numeric(6,2))          : hundredths of 1% (10^-2)           *)
(*   vat_rate (Numeric(5,4))          : 10^-4                              *)
(*   fractions (quantize 0.0000001)   : 10^-7                              *)
(* A NULL column / Python None is the value None.                          *)
(***************************************************************************)
EXTENDS Integers, Sequences, FiniteSets, TLC

VARIABLES
    users,                \* table users: id -> row
    service_units,        \* table service_units: id -> row
    procurements,         \* table procurements: id -> row (committed)
    material_lines,       \* table material_lines: id -> row (committed)
    procurement_suppliers,\* table procurement_suppliers: id -> row (committed)
    withholding_profiles, \* table withholding_profiles: id -> row
    income_tax_rules,     \* table income_tax_rules: id -> row
    request,              \* the request being / last served
    response,             \* its HTTP status
    personnel,            \* table personnel: id -> row
    committees,           \* table procurement_committees: id -> row
    option_values,        \* active option values per category key
    audit_logs,           \* table audit_logs (append-only): its number of rows
    feedback,             \* table feedback (append-only): its number of rows
    sessions,             \* the open database sessions of concurrent requests
    db_lock,              \* the session holding the database write lock
    analysis,             \* reports returned by compute_payment_analysis
    access                \* decisions taken by the procurement decorators

vars == <<users, service_units, procurements, material_lines,
          procurement_suppliers, withholding_profiles, income_tax_rules,
          request, response, personnel, committees, option_values,
          audit_logs, feedback, sessions, db_lock, analysis, access>>

\* the database tables
db == <<users, service_units, procurements, material_lines,
        procurement_suppliers, withholding_profiles, income_tax_rules,
        personnel, committees, option_values, audit_logs, feedback,
        sessions, db_lock>>

\* the master data, written by the settings and admin routes only
master == <<service_units, withholding_profiles, income_tax_rules,
            personnel, committees, option_values>>

None == -1

\* Python truthiness of an Optional[int] / Optional[Decimal]: None and 0 are falsy.
Truthy(v) == v # None /\ v # 0

\* None in a text column or form field
NoneText == "None"

\* Python truthiness of an Optional[str]: None and "" are falsy.
TruthyText(t) == t # NoneText /\ t # ""

\* an empty table
Empty == [x \in {} |-> None]

\* no request served yet
NoRequest == [user |-> None, method |-> "", endpoint |-> ""]

\* no concurrent request
NoSessions == [x \in {} |-> None]

\* no option value in any category
NoOptions == [KATASTASH |-> {}, STADIO |-> {}]

-----------------------------------------------------------------------------
(* Units of the fixed-point representations *)
PctOne == 100           \* percent columns: 1.00 (%) is 100
RateOne == 10000        \* vat_rate: 1.0000 is 10000
FracOne == 10000000     \* quantize(Decimal("0.0000001")): 1.0 is 10^7

\* n/d rounded to an integer, ROUND_HALF_UP (ties away from zero), d > 0
RoundHalfUp(n, d) ==
    IF n >= 0 THEN (n + (d \div 2)) \div d
    ELSE -(((-n) + (d \div 2)) \div d)

\* _to_decimal: None -> Decimal("0.00")
ToDecimal(value) == IF value = None THEN 0 ELSE value

\* _money of a value already held in cents (sums and differences of money)
Money(x) == RoundHalfUp(x, 1)

\* _money(base * frac): base in cents, frac in 10^-7; the product is in 10^-9
MoneyOfProduct(base, frac) == RoundHalfUp(base * frac, FracOne)

\* the heuristic dividing by 100 from 1 on instead of above 1
NormalizePercent_AtOne(rate, one) ==
    IF rate >= one THEN rate * (FracOne \div (one * 100))
    ELSE rate * (FracOne \div one)

\* _normalize_percent(rate), rate in units of 1/one (one = RateOne for
\* vat_rate, PctOne for a percent column); result in 10^-7.  Both branches
\* are exact at the column's precision, so the quantize does not round.
NormalizePercent(rate, one) ==
    IF rate > one THEN rate * (FracOne \div (one * 100))
    ELSE rate * (FracOne \div one)

\* the percent column read with the percent-or-fraction heuristic
PercentToFraction_Normalize(percent_value) == NormalizePercent(percent_value, PctOne)

\* _percent_to_fraction(percent_value): always divide by 100
PercentToFraction(percent_value) == percent_value * (FracOne \div (PctOne * 100))

\* _display_percent(rate) for vat_rate (10^-4); result in hundredths of 1%
DisplayPercent(rate) ==
    IF rate <= RateOne /\ rate # 0 THEN RoundHalfUp(rate * 100 * PctOne, RateOne)
    ELSE RoundHalfUp(rate * PctOne, RateOne)

-----------------------------------------------------------------------------
(* Procurement.compute_public_withholdings / compute_income_tax /          *)
(* compute_payment_analysis, on a procurement row p                        *)

\* the relationship attributes: the referenced row, if the FK is set and the row exists
HasWithholdingProfile(p) ==
    p.withholding_profile_id # None /\ p.withholding_profile_id \in DOMAIN withholding_profiles
WithholdingProfileOf(p) == withholding_profiles[p.withholding_profile_id]

HasIncomeTaxRule(p) ==
    p.income_tax_rule_id # None /\ p.income_tax_rule_id \in DOMAIN income_tax_rules
IncomeTaxRuleOf(p) == income_tax_rules[p.income_tax_rule_id]

WithholdingParts(profile) ==
    << [label |-> "MT-ELOA",   pct |-> ToDecimal(profile.mt_eloa_percent)],
       [label |-> "EADHSY",    pct |-> ToDecimal(profile.eadhsy_percent)],
       [label |-> "KRATHSH 1", pct |-> ToDecimal(profile.withholding1_percent)],
       [label |-> "KRATHSH 2", pct |-> ToDecimal(profile.withholding2_percent)] >>

\* the loop of compute_public_withholdings over parts[i..], accumulating
RECURSIVE WithholdingLoop(_, _, _, _)
WithholdingLoop(parts, i, base, acc) ==
    IF i > Len(parts) THEN acc
    ELSE LET pct_money == Money(parts[i].pct)
         IN IF pct_money = 0 THEN WithholdingLoop(parts, i + 1, base, acc)
            ELSE LET frac == PercentToFraction(pct_money)
                     amt == MoneyOfProduct(base, frac)
                 IN WithholdingLoop(parts, i + 1, base,
                        [items |-> Append(acc.items,
                                     [label |-> parts[i].label, percent |-> pct_money, amount |-> amt]),
                         total_amount |-> acc.total_amount + amt,
                         total_percent |-> acc.total_percent + pct_money])

\* the breakdown of a profile whatever its is_active flag
compute_public_withholdings_Inactive(p) ==
    LET base == ToDecimal(p.sum_total)
        profile == WithholdingProfileOf(p)
    IN IF ~HasWithholdingProfile(p) THEN [items |-> <<>>, total_percent |-> 0, total_amount |-> 0]
       ELSE IF FALSE THEN [items |-> <<>>, total_percent |-> 0, total_amount |-> 0]
       ELSE LET r == WithholdingLoop(WithholdingParts(profile), 1, base,
                        [items |-> <<>>, total_amount |-> 0, total_percent |-> 0])
            IN [items |-> r.items,
                total_percent |-> Money(r.total_percent),
                total_amount |-> Money(r.total_amount)]

\* the total taken from the summed percent instead of the rounded items
compute_public_withholdings_RawTotal(p) ==
    LET base == ToDecimal(p.sum_total)
        profile == WithholdingProfileOf(p)
    IN IF ~HasWithholdingProfile(p) THEN [items |-> <<>>, total_percent |-> 0, total_amount |-> 0]
       ELSE IF ~profile.is_active THEN [items |-> <<>>, total_percent |-> 0, total_amount |-> 0]
       ELSE LET r == WithholdingLoop(WithholdingParts(profile), 1, base,
                        [items |-> <<>>, total_amount |-> 0, total_percent |-> 0])
            IN [items |-> r.items,
                total_percent |-> Money(r.total_percent),
                total_amount |-> MoneyOfProduct(base, PercentToFraction(r.total_percent))]

compute_public_withholdings(p) ==
    LET base == ToDecimal(p.sum_total)
        profile == WithholdingProfileOf(p)
    IN IF ~HasWithholdingProfile(p) THEN [items |-> <<>>, total_percent |-> 0, total_amount |-> 0]
       ELSE IF ~profile.is_active THEN [items |-> <<>>, total_percent |-> 0, total_amount |-> 0]
       ELSE LET r == WithholdingLoop(WithholdingParts(profile), 1, base,
                        [items |-> <<>>, total_amount |-> 0, total_percent |-> 0])
            IN [items |-> r.items,
                total_percent |-> Money(r.total_percent),
                total_amount |-> Money(r.total_amount)]

\* the threshold test with the boundary on the taxed side
compute_income_tax_Strict(p) ==
    LET base_total == ToDecimal(p.sum_total)
        withh == compute_public_withholdings(p)
        after_withholdings == Money(base_total - ToDecimal(withh.total_amount))
        rule == IncomeTaxRuleOf(p)
        NoRule == [description |-> NoneText, rate_percent |-> 0, threshold |-> 0, amount |-> 0]
    IN IF ~HasIncomeTaxRule(p) THEN NoRule
       ELSE IF ~rule.is_active THEN NoRule
       ELSE LET threshold == ToDecimal(rule.threshold_amount)
                rate_pct == ToDecimal(rule.rate_percent)
            IN IF base_total < threshold
               THEN [description |-> rule.description, rate_percent |-> Money(rate_pct),
                     threshold |-> Money(threshold), amount |-> 0]
               ELSE LET rate_frac == NormalizePercent(rate_pct, PctOne)
                        amt == MoneyOfProduct(after_withholdings, rate_frac)
                    IN [description |-> rule.description, rate_percent |-> Money(rate_pct),
                        threshold |-> Money(threshold), amount |-> amt]

\* the threshold test on the after-withholding base
compute_income_tax_AfterBase(p) ==
    LET base_total == ToDecimal(p.sum_total)
        withh == compute_public_withholdings(p)
        after_withholdings == Money(base_total - ToDecimal(withh.total_amount))
        rule == IncomeTaxRuleOf(p)
        NoRule == [description |-> NoneText, rate_percent |-> 0, threshold |-> 0, amount |-> 0]
    IN IF ~HasIncomeTaxRule(p) THEN NoRule
       ELSE IF ~rule.is_active THEN NoRule
       ELSE LET threshold == ToDecimal(rule.threshold_amount)
                rate_pct == ToDecimal(rule.rate_percent)
            IN IF after_withholdings <= threshold
               THEN [description |-> rule.description, rate_percent |-> Money(rate_pct),
                     threshold |-> Money(threshold), amount |-> 0]
               ELSE LET rate_frac == NormalizePercent(rate_pct, PctOne)
                        amt == MoneyOfProduct(after_withholdings, rate_frac)
                    IN [description |-> rule.description, rate_percent |-> Money(rate_pct),
                        threshold |-> Money(threshold), amount |-> amt]

compute_income_tax(p) ==
    LET base_total == ToDecimal(p.sum_total)
        withh == compute_public_withholdings(p)
        after_withholdings == Money(base_total - ToDecimal(withh.total_amount))
        rule == IncomeTaxRuleOf(p)
        NoRule == [description |-> NoneText, rate_percent |-> 0, threshold |-> 0, amount |-> 0]
    IN IF ~HasIncomeTaxRule(p) THEN NoRule
       ELSE IF ~rule.is_active THEN NoRule
       ELSE LET threshold == ToDecimal(rule.threshold_amount)
                rate_pct == ToDecimal(rule.rate_percent)
            IN IF base_total <= threshold
               THEN [description |-> rule.description, rate_percent |-> Money(rate_pct),
                     threshold |-> Money(threshold), amount |-> 0]
               ELSE LET rate_frac == NormalizePercent(rate_pct, PctOne)
                        amt == MoneyOfProduct(after_withholdings, rate_frac)
                    IN [description |-> rule.description, rate_percent |-> Money(rate_pct),
                        threshold |-> Money(threshold), amount |-> amt]

\* the payable with the income tax added instead of subtracted
PayableWrong(sum_total, withh_total, tax_amount, vat_amount) ==
    Money(sum_total - withh_total + tax_amount + vat_amount)
Payable(sum_total, withh_total, tax_amount, vat_amount) ==
    Money(sum_total - withh_total - tax_amount + vat_amount)

compute_payment_analysis(p) ==
    LET sum_total == ToDecimal(p.sum_total)
        public_withh == compute_public_withholdings(p)
        income_tax == compute_income_tax(p)
        vat_pct_raw == ToDecimal(p.vat_rate)
        vat_frac == IF Truthy(vat_pct_raw) THEN NormalizePercent(vat_pct_raw, RateOne) ELSE 0
        vat_amount == MoneyOfProduct(sum_total, vat_frac)
        payable == Payable(sum_total, ToDecimal(public_withh.total_amount),
                           ToDecimal(income_tax.amount), vat_amount)
    IN [sum_total |-> Money(sum_total),
        public_withholdings |-> public_withh,
        income_tax |-> income_tax,
        vat_percent |-> DisplayPercent(vat_pct_raw),
        vat_amount |-> Money(vat_amount),
        payable_total |-> Money(payable)]

-----------------------------------------------------------------------------
(* app/security.py and User.can_manage.  The actor u is a users row; the    *)
(* decorators run behind @login_required, so current_user is authenticated. *)

\* User.service_unit: the relationship is empty when the FK is NULL
HasServiceUnit(u) == u.service_unit_id # None /\ u.service_unit_id \in DOMAIN service_units

is_manager(u) ==
    IF ~HasServiceUnit(u) THEN FALSE
    ELSE service_units[u.service_unit_id].manager_personnel_id = u.personnel_id

is_deputy(u) ==
    IF ~HasServiceUnit(u) THEN FALSE
    ELSE service_units[u.service_unit_id].deputy_personnel_id = u.personnel_id

\* can_manage forgetting the deputy
can_manage_ManagerOnly(u) == u.is_admin \/ is_manager(u)

can_manage(u) == u.is_admin \/ is_manager(u) \/ is_deputy(u)

is_admin(u) == u.is_admin

is_manager_or_deputy(u) == can_manage(u)

\* the view check without the "not user_su_id" test
procurement_access_required_NoneUnit(u, procurement) ==
    IF is_admin(u) THEN TRUE
    ELSE procurement.service_unit_id = u.service_unit_id

\* procurement_access_required: TRUE when the wrapped view runs, FALSE for 403
procurement_access_required(u, procurement) ==
    IF is_admin(u) THEN TRUE
    ELSE IF ~Truthy(u.service_unit_id) \/ procurement.service_unit_id # u.service_unit_id
         THEN FALSE
         ELSE TRUE

\* the edit check without the manager/deputy test
procurement_edit_required_AnyMember(u, procurement) ==
    IF is_admin(u) THEN TRUE
    ELSE IF ~Truthy(u.service_unit_id) \/ procurement.service_unit_id # u.service_unit_id
         THEN FALSE
         ELSE TRUE

\* the edit check without the service-unit test
procurement_edit_required_AnyUnit(u, procurement) ==
    IF is_admin(u) THEN TRUE
    ELSE IF ~is_manager_or_deputy(u) THEN FALSE
    ELSE TRUE

\* procurement_edit_required: TRUE when the wrapped view runs, FALSE for 403
procurement_edit_required(u, procurement) ==
    IF is_admin(u) THEN TRUE
    ELSE IF ~Truthy(u.service_unit_id) \/ procurement.service_unit_id # u.service_unit_id
         THEN FALSE
         ELSE IF ~is_manager_or_deputy(u) THEN FALSE
         ELSE TRUE

-----------------------------------------------------------------------------
(* Rows *)

\* a procurements row.  Free-text columns that are copied from the form and
\* read by no condition (serial_no, ale, allocation, quarterly, the other
\* hop_* markers, aay, notes, the other implementation texts) are left out;
\* adam_aay stands for the implementation-phase text columns.
ProcurementRow(su, descr, vat, hop, ste, rule, wp) ==
    [service_unit_id |-> su, description |-> descr, status |-> NoneText, stage |-> NoneText,
     handler_personnel_id |-> None, income_tax_rule_id |-> rule,
     withholding_profile_id |-> wp, committee_id |-> None,
     vat_rate |-> vat, sum_total |-> None, vat_amount |-> None, grand_total |-> None,
     hop_approval |-> hop, adam_aay |-> NoneText, send_to_expenses |-> ste]


-----------------------------------------------------------------------------
(* Requests.  A request is served as one step: the before_request hook,    *)
(* @login_required, the decorator, the view, flush, audit and commit.  A   *)
(* view that returns before db.session.commit() leaves the tables as they  *)
(* were (the session is discarded at the end of the request).              *)

MUTATING_METHODS == {"POST", "PUT", "PATCH", "DELETE"}

allow_mutating_endpoints == {"settings.theme", "settings.feedback", "auth.logout"}

\* the guard that lets every mutating request through
viewer_readonly_guard_Off(uid, method, endpoint) == FALSE

\* viewer_readonly_guard: TRUE when it returns _forbidden().  uid = None is
\* the anonymous user (current_user.is_authenticated is False).
viewer_readonly_guard(uid, method, endpoint) ==
    IF method \notin MUTATING_METHODS THEN FALSE
    ELSE IF uid = None THEN FALSE
    ELSE IF is_admin(users[uid]) \/ is_manager_or_deputy(users[uid]) THEN FALSE
    ELSE IF endpoint \in allow_mutating_endpoints THEN FALSE
    ELSE TRUE

\* what runs before a @login_required view: 403 from _viewer_guard_hook,
\* 302 to auth.login for the anonymous user, 0 when the view is entered
BeforeView(uid, method, endpoint) ==
    IF viewer_readonly_guard(uid, method, endpoint) THEN 403
    ELSE IF uid = None THEN 302
    ELSE 0

\* (request.form.get(name) or "").strip() or None
StripOrNone(raw) == IF raw \in {"", " ", NoneText} THEN NoneText ELSE raw

\* the id the table gives to the next inserted row
NextId(table) ==
    IF DOMAIN table = {} THEN 1
    ELSE (CHOOSE i \in DOMAIN table : \A j \in DOMAIN table : j <= i) + 1

\* a table with one more row / without a row
Insert(table, id, row) == [i \in DOMAIN table \cup {id} |-> IF i = id THEN row ELSE table[i]]
Delete(table, id) == [i \in DOMAIN table \ {id} |-> table[i]]

\* log_action(entity, action, ...): one more audit_logs row
log_action(entity_type, entity_id, action) == audit_logs + 1

\* _handler_candidates(service_unit_id): ids of the active personnel of the unit
handler_candidates(service_unit_id) ==
    IF ~Truthy(service_unit_id) THEN {}
    ELSE {i \in DOMAIN personnel :
            personnel[i].is_active /\ personnel[i].service_unit_id = service_unit_id}

\* the phase test looking at hop_approval alone
is_in_implementation_phase_HopOnly(procurement) == TruthyText(procurement.hop_approval)

\* _is_in_implementation_phase
is_in_implementation_phase(procurement) ==
    procurement.send_to_expenses /\ TruthyText(procurement.hop_approval)

\* the stored send_to_expenses without the hop_approval condition
send_to_expenses_Unchecked(send_to_expenses, hop_approval) == send_to_expenses

\* the send_to_expenses stored by create / edit / implementation
send_to_expenses_value(send_to_expenses, hop_approval) ==
    IF send_to_expenses /\ ~TruthyText(hop_approval) THEN FALSE
    ELSE send_to_expenses /\ TruthyText(hop_approval)

\* the total cut to two decimals instead of rounded
MoneyOfLines_Floor(total) == total \div PctOne

\* _money of a sum of quantity * unit_price products (10^-4)
MoneyOfLines(total) == RoundHalfUp(total, PctOne)

\* the ids of the material lines of a procurement (procurement.materials)
MaterialIdsOf(pid, lines) == {i \in DOMAIN lines : lines[i].procurement_id = pid}

\* the loop of recalc_totals over the lines, in id order
RECURSIVE LinesTotal(_, _)
LinesTotal(ids, lines) ==
    IF ids = {} THEN 0
    ELSE LET i == CHOOSE x \in ids : \A y \in ids : x <= y
             line == lines[i]
         IN (IF Truthy(line.quantity) /\ Truthy(line.unit_price)
             THEN line.quantity * line.unit_price ELSE 0)
            + LinesTotal(ids \ {i}, lines)

\* Procurement.recalc_totals on row p with id pid, lines the material_lines
\* table as the session sees it
recalc_totals(p, pid, lines) ==
    LET total == LinesTotal(MaterialIdsOf(pid, lines), lines)
        sum_total == MoneyOfLines(total)
    IN IF ~Truthy(p.vat_rate)
       THEN [p EXCEPT !.sum_total = sum_total, !.vat_amount = 0, !.grand_total = sum_total]
       ELSE LET rate == NormalizePercent(p.vat_rate, RateOne)
                vat == MoneyOfProduct(sum_total, rate)
            IN [p EXCEPT !.sum_total = sum_total, !.vat_amount = vat,
                         !.grand_total = Money(sum_total + vat)]

\* the request is answered with status and nothing is committed
Refuse(status) ==
    /\ response' = status
    /\ UNCHANGED <<db, analysis, access>>

\* a teardown that keeps the pending changes of procurement pid
session_remove_Keeping(pid, dirty) == [procurements EXCEPT ![pid] = dirty]

\* the teardown of a request that did not commit: db.session.remove()
\* rolls the pending changes of procurement pid (dirty, autoflushed or
\* not) back, the committed table stays
session_remove(pid, dirty) == procurements

\* the view returns before db.session.commit() with procurement pid
\* already overwritten in memory
RefuseUncommitted(status, pid, dirty) ==
    /\ response' = status
    /\ procurements' = session_remove(pid, dirty)
    /\ UNCHANGED <<users, master, material_lines, procurement_suppliers,
                   audit_logs, feedback, sessions, db_lock, analysis, access>>

\* the rule exists, active or not
ActiveRule_Exists(id) == id \in DOMAIN income_tax_rules

\* IncomeTaxRule.query.get(id) is found and active; likewise the profile
ActiveRule(id) == id \in DOMAIN income_tax_rules /\ income_tax_rules[id].is_active
ActiveProfile(id) == id \in DOMAIN withholding_profiles /\ withholding_profiles[id].is_active

\* POST /procurements/new
\* create_procurement trusting the form's service_unit_id for every actor
CreatedServiceUnitId_Form(u, form) == form.service_unit_id

\* the service unit of a new procurement: the form's for the admin, the
\* creator's own for everybody else
CreatedServiceUnitId(u, form) ==
    IF u.is_admin THEN form.service_unit_id ELSE u.service_unit_id

CreateProcurement(uid, form) ==
    LET endpoint == "procurements.create_procurement"
        before == BeforeView(uid, "POST", endpoint)
        u == users[uid]
        service_unit_id == CreatedServiceUnitId(u, form)
        description == StripOrNone(form.description)
        handler_pid == form.handler_personnel_id
        id == NextId(procurements)
        hop_approval == StripOrNone(form.hop_approval)
        new == [service_unit_id |-> service_unit_id,
                description |-> description,
                status |-> StripOrNone(form.status),
                stage |-> StripOrNone(form.stage),
                handler_personnel_id |-> handler_pid,
                income_tax_rule_id |-> IF Truthy(form.income_tax_rule_id)
                                       THEN form.income_tax_rule_id ELSE None,
                withholding_profile_id |-> IF Truthy(form.withholding_profile_id)
                                           THEN form.withholding_profile_id ELSE None,
                committee_id |-> None,
                vat_rate |-> form.vat_rate,
                sum_total |-> None, vat_amount |-> None, grand_total |-> None,
                hop_approval |-> hop_approval,
                adam_aay |-> NoneText,
                send_to_expenses |-> send_to_expenses_value(form.send_to_expenses, hop_approval)]
    IN /\ request' = [user |-> uid, method |-> "POST", endpoint |-> endpoint]
       /\ IF before # 0 THEN Refuse(before)
          ELSE IF ~(u.is_admin \/ can_manage(u)) THEN Refuse(403)
          ELSE IF ~TruthyText(description) THEN Refuse(302)
          ELSE IF Truthy(handler_pid) /\ handler_pid \notin handler_candidates(service_unit_id)
               THEN Refuse(302)
          ELSE IF Truthy(form.income_tax_rule_id) /\ ~ActiveRule(form.income_tax_rule_id)
               THEN Refuse(302)
          ELSE IF Truthy(form.withholding_profile_id) /\ ~ActiveProfile(form.withholding_profile_id)
               THEN Refuse(302)
          ELSE /\ procurements' = Insert(procurements, id, recalc_totals(new, id, material_lines))
               /\ audit_logs' = log_action("Procurement", id, "CREATE")
               /\ response' = 302
               /\ UNCHANGED <<users, master, material_lines, procurement_suppliers,
                              feedback, sessions, db_lock, analysis, access>>

\* POST /procurements/<procurement_id>/edit
EditProcurement(uid, pid, form) ==
    LET endpoint == "procurements.edit_procurement"
        before == BeforeView(uid, "POST", endpoint)
        u == users[uid]
        procurement == procurements[pid]
        service_unit_id == IF u.is_admin THEN form.service_unit_id
                           ELSE procurement.service_unit_id
        hop_approval == StripOrNone(form.hop_approval)
        handler_pid == form.handler_personnel_id
        \* the row in memory when the handler, the rule and the profile are checked
        at_handler == [procurement EXCEPT
                         !.service_unit_id = service_unit_id,
                         !.description = StripOrNone(form.description),
                         !.status = StripOrNone(form.status),
                         !.stage = StripOrNone(form.stage),
                         !.vat_rate = form.vat_rate,
                         !.hop_approval = hop_approval]
        at_rule == [at_handler EXCEPT
                      !.handler_personnel_id = IF Truthy(handler_pid) THEN handler_pid ELSE None]
        at_profile == [at_rule EXCEPT
                         !.income_tax_rule_id = IF Truthy(form.income_tax_rule_id)
                                                THEN form.income_tax_rule_id ELSE None]
        edited == [at_profile EXCEPT
                     !.withholding_profile_id = IF Truthy(form.withholding_profile_id)
                                                THEN form.withholding_profile_id ELSE None,
                     !.send_to_expenses = send_to_expenses_value(form.send_to_expenses, hop_approval)]
    IN /\ request' = [user |-> uid, method |-> "POST", endpoint |-> endpoint]
       /\ IF before # 0 THEN Refuse(before)
          ELSE IF pid \notin DOMAIN procurements THEN Refuse(404)
          ELSE IF ~procurement_access_required(u, procurement) THEN Refuse(403)
          ELSE IF ~(u.is_admin \/ can_manage(u)) THEN Refuse(403)
          ELSE IF Truthy(handler_pid) /\ handler_pid \notin handler_candidates(service_unit_id)
               THEN RefuseUncommitted(302, pid, at_handler)
          ELSE IF Truthy(form.income_tax_rule_id) /\ ~ActiveRule(form.income_tax_rule_id)
               THEN RefuseUncommitted(302, pid, at_rule)
          ELSE IF Truthy(form.withholding_profile_id) /\ ~ActiveProfile(form.withholding_profile_id)
               THEN RefuseUncommitted(302, pid, at_profile)
          ELSE /\ procurements' = [procurements EXCEPT
                                     ![pid] = recalc_totals(edited, pid, material_lines)]
               /\ audit_logs' = log_action("Procurement", pid, "UPDATE")
               /\ response' = 302
               /\ UNCHANGED <<users, master, material_lines, procurement_suppliers,
                              feedback, sessions, db_lock, analysis, access>>

\* POST /procurements/<procurement_id>/implementation
ImplementationProcurement(uid, pid, form) ==
    LET endpoint == "procurements.implementation_procurement"
        before == BeforeView(uid, "POST", endpoint)
        u == users[uid]
        procurement == procurements[pid]
        new_status == StripOrNone(form.status)
        new_stage == StripOrNone(form.stage)
        hop_approval == StripOrNone(form.hop_approval)
        committee_id == form.committee_id
        \* the row in memory when the stage, the committee, the rule and
        \* the profile are checked
        at_stage == [procurement EXCEPT !.status = new_status]
        at_committee == [at_stage EXCEPT !.stage = new_stage, !.hop_approval = hop_approval]
        at_rule == [at_committee EXCEPT
                      !.committee_id = IF Truthy(committee_id) THEN committee_id ELSE None]
        at_profile == [at_rule EXCEPT
                         !.income_tax_rule_id = IF Truthy(form.income_tax_rule_id)
                                                THEN form.income_tax_rule_id ELSE None,
                         !.adam_aay = StripOrNone(form.adam_aay)]
        edited == [at_profile EXCEPT
                     !.withholding_profile_id = IF Truthy(form.withholding_profile_id)
                                                THEN form.withholding_profile_id ELSE None,
                     !.vat_rate = form.vat_rate,
                     !.send_to_expenses = send_to_expenses_value(form.send_to_expenses, hop_approval)]
    IN /\ request' = [user |-> uid, method |-> "POST", endpoint |-> endpoint]
       /\ IF before # 0 THEN Refuse(before)
          ELSE IF pid \notin DOMAIN procurements THEN Refuse(404)
          ELSE IF ~procurement_access_required(u, procurement) THEN Refuse(403)
          ELSE IF ~is_in_implementation_phase(procurement) THEN Refuse(302)
          ELSE IF ~(u.is_admin \/ can_manage(u)) THEN Refuse(403)
          ELSE IF TruthyText(new_status) /\ new_status \notin option_values.KATASTASH
               THEN Refuse(302)
          ELSE IF TruthyText(new_stage) /\ new_stage \notin option_values.STADIO
               THEN RefuseUncommitted(302, pid, at_stage)
          ELSE IF Truthy(committee_id)
                  /\ ~(/\ committee_id \in DOMAIN committees
                       /\ committees[committee_id].is_active
                       /\ committees[committee_id].service_unit_id = procurement.service_unit_id)
               THEN RefuseUncommitted(302, pid, at_committee)
          ELSE IF Truthy(form.income_tax_rule_id) /\ ~ActiveRule(form.income_tax_rule_id)
               THEN RefuseUncommitted(302, pid, at_rule)
          ELSE IF Truthy(form.withholding_profile_id) /\ ~ActiveProfile(form.withholding_profile_id)
               THEN RefuseUncommitted(302, pid, at_profile)
          ELSE /\ procurements' = [procurements EXCEPT
                                     ![pid] = recalc_totals(edited, pid, material_lines)]
               /\ audit_logs' = log_action("Procurement", pid, "UPDATE")
               /\ response' = 302
               /\ UNCHANGED <<users, master, material_lines, procurement_suppliers,
                              feedback, sessions, db_lock, analysis, access>>

\* GET of the implementation page: the phase is tested before the method,
\* the page is rendered for a procurement in the phase only
GetImplementationProcurement(uid, pid) ==
    LET endpoint == "procurements.implementation_procurement"
        before == BeforeView(uid, "GET", endpoint)
    IN /\ request' = [user |-> uid, method |-> "GET", endpoint |-> endpoint]
       /\ IF before # 0 THEN Refuse(before)
          ELSE IF pid \notin DOMAIN procurements THEN Refuse(404)
          ELSE IF ~procurement_access_required(users[uid], procurements[pid]) THEN Refuse(403)
          ELSE IF ~is_in_implementation_phase(procurements[pid]) THEN Refuse(302)
          ELSE Refuse(200)

\* POST /procurements/<procurement_id>/materials/add
AddMaterialLine(uid, pid, form) ==
    LET endpoint == "procurements.add_material_line"
        before == BeforeView(uid, "POST", endpoint)
        u == users[uid]
        procurement == procurements[pid]
        description == StripOrNone(form.description)
        quantity == IF Truthy(form.quantity) THEN form.quantity ELSE 0
        unit_price == IF Truthy(form.unit_price) THEN form.unit_price ELSE 0
        id == NextId(material_lines)
        line == [procurement_id |-> pid, quantity |-> quantity, unit_price |-> unit_price]
        lines == Insert(material_lines, id, line)
    IN /\ request' = [user |-> uid, method |-> "POST", endpoint |-> endpoint]
       /\ IF before # 0 THEN Refuse(before)
          ELSE IF pid \notin DOMAIN procurements THEN Refuse(404)
          ELSE IF ~procurement_edit_required(u, procurement) THEN Refuse(403)
          ELSE IF ~TruthyText(description) THEN Refuse(302)
          ELSE /\ material_lines' = lines
               /\ procurements' = [procurements EXCEPT
                                     ![pid] = recalc_totals(procurement, pid, lines)]
               /\ audit_logs' = log_action("MaterialLine", id, "CREATE")
               /\ response' = 302
               /\ UNCHANGED <<users, master, procurement_suppliers,
                              feedback, sessions, db_lock, analysis, access>>

\* POST /procurements/<procurement_id>/materials/<line_id>/delete
DeleteMaterialLine(uid, pid, line_id) ==
    LET endpoint == "procurements.delete_material_line"
        before == BeforeView(uid, "POST", endpoint)
        u == users[uid]
        procurement == procurements[pid]
        lines == Delete(material_lines, line_id)
    IN /\ request' = [user |-> uid, method |-> "POST", endpoint |-> endpoint]
       /\ IF before # 0 THEN Refuse(before)
          ELSE IF pid \notin DOMAIN procurements THEN Refuse(404)
          ELSE IF ~procurement_edit_required(u, procurement) THEN Refuse(403)
          ELSE IF line_id \notin DOMAIN material_lines THEN Refuse(404)
          ELSE /\ material_lines' = lines
               /\ procurements' = [procurements EXCEPT
                                     ![pid] = recalc_totals(procurement, pid, lines)]
               /\ audit_logs' = log_action("MaterialLine", line_id, "DELETE")
               /\ response' = 302
               /\ UNCHANGED <<users, master, procurement_suppliers,
                              feedback, sessions, db_lock, analysis, access>>

\* procurement.supplies_links: the ids of the participations of a procurement
SuppliesLinkIdsOf(pid, links) == {i \in DOMAIN links : links[i].procurement_id = pid}

\* adding a winner without clearing the other winner flags
ClearWinners_Keep(pid, links) == links

\* "for link in procurement.supplies_links: link.is_winner = False"
ClearWinners(pid, links) ==
    [i \in DOMAIN links |->
        IF links[i].procurement_id = pid THEN [links[i] EXCEPT !.is_winner = FALSE]
        ELSE links[i]]

\* ProcurementSupplier.query.filter_by(procurement_id, supplier_id).first() is not None
LinkExists(pid, supplier_id, links) ==
    \E i \in DOMAIN links :
        links[i].procurement_id = pid /\ links[i].supplier_id = supplier_id

\* POST /procurements/<procurement_id>/suppliers/add
AddProcurementSupplier(uid, pid, form) ==
    LET endpoint == "procurements.add_procurement_supplier"
        before == BeforeView(uid, "POST", endpoint)
        u == users[uid]
        procurement == procurements[pid]
        supplier_id == form.supplier_id
        is_winner == form.is_winner
        cleared == IF is_winner THEN ClearWinners(pid, procurement_suppliers)
                   ELSE procurement_suppliers
        id == NextId(procurement_suppliers)
        link == [procurement_id |-> pid, supplier_id |-> supplier_id, is_winner |-> is_winner]
    IN /\ request' = [user |-> uid, method |-> "POST", endpoint |-> endpoint]
       /\ IF before # 0 THEN Refuse(before)
          ELSE IF pid \notin DOMAIN procurements THEN Refuse(404)
          ELSE IF ~procurement_edit_required(u, procurement) THEN Refuse(403)
          ELSE IF ~Truthy(supplier_id) THEN Refuse(302)
          ELSE IF LinkExists(pid, supplier_id, procurement_suppliers) THEN Refuse(302)
          ELSE /\ procurement_suppliers' = Insert(cleared, id, link)
               /\ audit_logs' = log_action("ProcurementSupplier", id, "CREATE")
               /\ response' = 302
               /\ UNCHANGED <<users, master, procurements, material_lines,
                              feedback, sessions, db_lock, analysis, access>>

\* POST /procurements/<procurement_id>/suppliers/<link_id>/delete
DeleteProcurementSupplier(uid, pid, link_id) ==
    LET endpoint == "procurements.delete_procurement_supplier"
        before == BeforeView(uid, "POST", endpoint)
        u == users[uid]
        procurement == procurements[pid]
    IN /\ request' = [user |-> uid, method |-> "POST", endpoint |-> endpoint]
       /\ IF before # 0 THEN Refuse(before)
          ELSE IF pid \notin DOMAIN procurements THEN Refuse(404)
          ELSE IF ~procurement_edit_required(u, procurement) THEN Refuse(403)
          ELSE IF link_id \notin DOMAIN procurement_suppliers THEN Refuse(404)
          ELSE /\ procurement_suppliers' = Delete(procurement_suppliers, link_id)
               /\ audit_logs' = log_action("ProcurementSupplier", link_id, "DELETE")
               /\ response' = 302
               /\ UNCHANGED <<users, master, procurements, material_lines,
                              feedback, sessions, db_lock, analysis, access>>

-----------------------------------------------------------------------------
(* add_procurement_supplier served concurrently: each request runs in its  *)
(* own database session and is split at its database operations.  Reads    *)
(* see the committed tables; flush takes the write lock of the database    *)
(* and holds it until commit or rollback.                                  *)

\* a session that serves no request
IdleSession ==
    [pc |-> "idle", user |-> None, procurement_id |-> None, supplier_id |-> None,
     is_winner |-> FALSE, loaded |-> {}, user_id |-> None, response |-> 0, outcome |-> ""]

\* the request of session s ends with status and outcome, nothing committed
SessionEnds(s, status, outcome) ==
    /\ sessions' = [sessions EXCEPT ![s].pc = "idle", ![s].response = status,
                                    ![s].outcome = outcome]
    /\ UNCHANGED <<users, master, procurements, material_lines, procurement_suppliers,
                   audit_logs, feedback, request, response, analysis, access>>

\* the INSERT passes whatever rows exist
UniqueViolation_Off(pid, supplier_id, links) == FALSE

\* uq_procurement_supplier: the INSERT of (pid, supplier_id) violates the
\* unique constraint
UniqueViolation(pid, supplier_id, links) ==
    \E i \in DOMAIN links :
        links[i].procurement_id = pid /\ links[i].supplier_id = supplier_id

\* the decorators, the supplier_id parse and the existence query
AddProcurementSupplierCheck(s, uid, pid, form) ==
    LET before == BeforeView(uid, "POST", "procurements.add_procurement_supplier")
        u == users[uid]
        started == [sessions EXCEPT ![s] =
                       [IdleSession EXCEPT !.user = uid, !.procurement_id = pid,
                                           !.supplier_id = form.supplier_id,
                                           !.is_winner = form.is_winner]]
        ends(status, outcome) ==
            /\ sessions' = [started EXCEPT ![s].response = status, ![s].outcome = outcome]
            /\ UNCHANGED db_lock
    IN /\ sessions[s].pc = "idle"
       /\ UNCHANGED <<users, master, procurements, material_lines, procurement_suppliers,
                      audit_logs, feedback, request, response, analysis, access>>
       /\ IF before # 0 THEN ends(before, "refused")
          ELSE IF pid \notin DOMAIN procurements THEN ends(404, "refused")
          ELSE IF ~procurement_edit_required(u, procurements[pid]) THEN ends(403, "refused")
          ELSE IF ~Truthy(form.supplier_id) THEN ends(302, "refused")
          ELSE IF LinkExists(pid, form.supplier_id, procurement_suppliers)
               THEN ends(302, "exists")
          ELSE /\ sessions' = [started EXCEPT ![s].pc = "checked"]
               /\ UNCHANGED db_lock

\* "if is_winner: for link in procurement.supplies_links": the lazy load
AddProcurementSupplierLoad(s) ==
    /\ sessions[s].pc = "checked"
    /\ sessions' = [sessions EXCEPT
                      ![s].pc = "loaded",
                      ![s].loaded = IF sessions[s].is_winner
                                    THEN SuppliesLinkIdsOf(sessions[s].procurement_id,
                                                           procurement_suppliers)
                                    ELSE {}]
    /\ UNCHANGED <<users, master, procurements, material_lines, procurement_suppliers,
                   audit_logs, feedback, db_lock, request, response, analysis, access>>

\* db.session.flush(): the UPDATEs and the INSERT; IntegrityError is caught,
\* the session is rolled back and the request ends
AddProcurementSupplierFlush(s) ==
    /\ sessions[s].pc = "loaded"
    /\ db_lock = None
    /\ IF UniqueViolation(sessions[s].procurement_id, sessions[s].supplier_id,
                          procurement_suppliers)
       THEN /\ SessionEnds(s, 302, "IntegrityError")
            /\ UNCHANGED db_lock
       ELSE /\ sessions' = [sessions EXCEPT ![s].pc = "flushed"]
            /\ db_lock' = s
            /\ UNCHANGED <<users, master, procurements, material_lines,
                           procurement_suppliers, audit_logs, feedback, request,
                           response, analysis, access>>

\* db.session.flush() while another session holds the write lock until the
\* busy timeout: OperationalError, not caught by the view
AddProcurementSupplierBusy(s) ==
    /\ sessions[s].pc = "loaded"
    /\ db_lock \notin {None, s}
    /\ SessionEnds(s, 500, "OperationalError")
    /\ UNCHANGED db_lock

\* log_action and db.session.commit(): the flushed rows become visible
AddProcurementSupplierCommit(s) ==
    LET pid == sessions[s].procurement_id
        cleared == [i \in DOMAIN procurement_suppliers |->
                      IF i \in sessions[s].loaded
                      THEN [procurement_suppliers[i] EXCEPT !.is_winner = FALSE]
                      ELSE procurement_suppliers[i]]
        id == NextId(procurement_suppliers)
        link == [procurement_id |-> pid, supplier_id |-> sessions[s].supplier_id,
                 is_winner |-> sessions[s].is_winner]
    IN /\ sessions[s].pc = "flushed"
       /\ db_lock = s
       /\ procurement_suppliers' = Insert(cleared, id, link)
       /\ audit_logs' = log_action("ProcurementSupplier", id, "CREATE")
       /\ db_lock' = None
       /\ sessions' = [sessions EXCEPT ![s].pc = "idle", ![s].response = 302,
                                       ![s].outcome = "added"]
       /\ UNCHANGED <<users, master, procurements, material_lines, feedback, request,
                      response, analysis, access>>

-----------------------------------------------------------------------------
(* app/blueprints/settings/routes.py: the two self-service routes and one  *)
(* admin-only master-data route; a request that matches no route           *)

\* the keys of the themes dict of theme()
themes == {"default", "dark", "ocean"}

\* admin_required: TRUE when the wrapped view runs, FALSE for 403
admin_required(u) == is_admin(u)

\* POST /settings/theme
SettingsTheme(uid, selected) ==
    LET endpoint == "settings.theme"
        before == BeforeView(uid, "POST", endpoint)
    IN /\ request' = [user |-> uid, method |-> "POST", endpoint |-> endpoint]
       /\ IF before # 0 THEN Refuse(before)
          ELSE IF selected \notin themes THEN Refuse(302)
          ELSE /\ users' = [users EXCEPT ![uid].theme = selected]
               /\ response' = 302
               /\ UNCHANGED <<master, procurements, material_lines, procurement_suppliers,
                              audit_logs, feedback, sessions, db_lock, analysis, access>>

\* POST /settings/feedback, no related procurement given
SettingsFeedback(uid, form) ==
    LET endpoint == "settings.feedback"
        before == BeforeView(uid, "POST", endpoint)
        subject == StripOrNone(form.subject)
        message == StripOrNone(form.message)
    IN /\ request' = [user |-> uid, method |-> "POST", endpoint |-> endpoint]
       /\ IF before # 0 THEN Refuse(before)
          ELSE IF ~TruthyText(subject) THEN Refuse(302)
          ELSE IF ~TruthyText(message) THEN Refuse(302)
          ELSE /\ feedback' = feedback + 1
               /\ response' = 302
               /\ UNCHANGED <<users, master, procurements, material_lines,
                              procurement_suppliers, audit_logs, sessions, db_lock,
                              analysis, access>>

\* POST /settings/options/status (_options_page with key KATASTASH), actions
\* create and delete.  option_values keeps the active values of a category,
\* so a row is named by its value.
OptionsStatus(uid, form) ==
    LET endpoint == "settings.options_status"
        before == BeforeView(uid, "POST", endpoint)
        u == users[uid]
        value == StripOrNone(form.value)
    IN /\ request' = [user |-> uid, method |-> "POST", endpoint |-> endpoint]
       /\ IF before # 0 THEN Refuse(before)
          ELSE IF ~admin_required(u) THEN Refuse(403)
          ELSE IF form.action = "create"
          THEN IF ~TruthyText(value) THEN Refuse(302)
               ELSE /\ option_values' =
                          [option_values EXCEPT
                             !.KATASTASH = IF form.is_active THEN @ \cup {value} ELSE @]
                    /\ audit_logs' = log_action("OptionValue", value, "CREATE")
                    /\ response' = 302
                    /\ UNCHANGED <<users, service_units, withholding_profiles,
                                   income_tax_rules, personnel, committees, procurements,
                                   material_lines, procurement_suppliers, feedback,
                                   sessions, db_lock, analysis, access>>
          ELSE IF form.action = "delete"
          THEN IF form.value \notin option_values.KATASTASH THEN Refuse(302)
               ELSE /\ option_values' = [option_values EXCEPT !.KATASTASH = @ \ {form.value}]
                    /\ audit_logs' = log_action("OptionValue", form.value, "DELETE")
                    /\ response' = 302
                    /\ UNCHANGED <<users, service_units, withholding_profiles,
                                   income_tax_rules, personnel, committees, procurements,
                                   material_lines, procurement_suppliers, feedback,
                                   sessions, db_lock, analysis, access>>
          ELSE Refuse(302)

\* ondelete="SET NULL" on a procurement column referencing a deleted row:
\* enforced sets the column to NULL, not enforced (SQLite without
\* PRAGMA foreign_keys) leaves the id in place
SetNull(table, column, id, enforced) ==
    [i \in DOMAIN table |->
        IF enforced /\ table[i][column] = id THEN [table[i] EXCEPT ![column] = None]
        ELSE table[i]]

\* POST /settings/income-tax
IncomeTaxRulesRoute(uid, form) ==
    LET endpoint == "settings.income_tax_rules"
        before == BeforeView(uid, "POST", endpoint)
        u == users[uid]
        desc == form.description
        rate == IF Truthy(form.rate_percent) THEN form.rate_percent ELSE 0
        threshold == IF Truthy(form.threshold_amount) THEN form.threshold_amount ELSE 15000
        rid == form.id
        row == [description |-> desc, rate_percent |-> rate,
                threshold_amount |-> threshold, is_active |-> form.is_active]
        commit(table, action, id, rows) ==
            /\ income_tax_rules' = table
            /\ procurements' = rows
            /\ audit_logs' = log_action("IncomeTaxRule", id, action)
            /\ response' = 302
            /\ UNCHANGED <<users, service_units, withholding_profiles, personnel,
                           committees, option_values, material_lines,
                           procurement_suppliers, feedback, sessions, db_lock,
                           analysis, access>>
    IN /\ request' = [user |-> uid, method |-> "POST", endpoint |-> endpoint]
       /\ IF before # 0 THEN Refuse(before)
          ELSE IF ~admin_required(u) THEN Refuse(403)
          ELSE IF form.action = "create"
          THEN IF desc = "" THEN Refuse(302)
               ELSE commit(Insert(income_tax_rules, NextId(income_tax_rules), row),
                           "CREATE", NextId(income_tax_rules), procurements)
          ELSE IF form.action = "update"
          THEN IF rid = None THEN Refuse(302)
               ELSE IF rid \notin DOMAIN income_tax_rules THEN Refuse(404)
               ELSE IF desc = "" THEN Refuse(302)
               ELSE commit([income_tax_rules EXCEPT ![rid] = row], "UPDATE", rid,
                           procurements)
          ELSE IF form.action = "delete"
          THEN IF rid = None THEN Refuse(302)
               ELSE IF rid \notin DOMAIN income_tax_rules THEN Refuse(404)
               ELSE \E enforced \in BOOLEAN :
                       commit(Delete(income_tax_rules, rid), "DELETE", rid,
                              SetNull(procurements, "income_tax_rule_id", rid, enforced))
          ELSE Refuse(302)

\* POST /settings/withholding-profiles
WithholdingProfilesRoute(uid, form) ==
    LET endpoint == "settings.withholding_profiles"
        before == BeforeView(uid, "POST", endpoint)
        u == users[uid]
        desc == form.description
        percent(value) == IF Truthy(value) THEN value ELSE 0
        pid == form.id
        row == [description |-> desc,
                mt_eloa_percent |-> percent(form.mt_eloa_percent),
                eadhsy_percent |-> percent(form.eadhsy_percent),
                withholding1_percent |-> percent(form.withholding1_percent),
                withholding2_percent |-> percent(form.withholding2_percent),
                is_active |-> form.is_active]
        commit(table, action, id, rows) ==
            /\ withholding_profiles' = table
            /\ procurements' = rows
            /\ audit_logs' = log_action("WithholdingProfile", id, action)
            /\ response' = 302
            /\ UNCHANGED <<users, service_units, income_tax_rules, personnel,
                           committees, option_values, material_lines,
                           procurement_suppliers, feedback, sessions, db_lock,
                           analysis, access>>
    IN /\ request' = [user |-> uid, method |-> "POST", endpoint |-> endpoint]
       /\ IF before # 0 THEN Refuse(before)
          ELSE IF ~admin_required(u) THEN Refuse(403)
          ELSE IF form.action = "create"
          THEN IF desc = "" THEN Refuse(302)
               ELSE commit(Insert(withholding_profiles, NextId(withholding_profiles), row),
                           "CREATE", NextId(withholding_profiles), procurements)
          ELSE IF form.action = "update"
          THEN IF pid = None THEN Refuse(302)
               ELSE IF pid \notin DOMAIN withholding_profiles THEN Refuse(404)
               ELSE IF desc = "" THEN Refuse(302)
               ELSE commit([withholding_profiles EXCEPT ![pid] = row], "UPDATE", pid,
                           procurements)
          ELSE IF form.action = "delete"
          THEN IF pid = None THEN Refuse(302)
               ELSE IF pid \notin DOMAIN withholding_profiles THEN Refuse(404)
               ELSE \E enforced \in BOOLEAN :
                       commit(Delete(withholding_profiles, pid), "DELETE", pid,
                              SetNull(procurements, "withholding_profile_id", pid, enforced))
          ELSE Refuse(302)

\* a request whose method no route accepts: the before_request hook runs
\* with request.endpoint = None, then Flask answers 405
MethodNotAllowed(uid, method) ==
    /\ request' = [user |-> uid, method |-> method, endpoint |-> ""]
    /\ IF viewer_readonly_guard(uid, method, "") THEN Refuse(403) ELSE Refuse(405)

-----------------------------------------------------------------------------
(* The application with its master data in place and no procurement yet    *)

MaxProcurements == 2
MaxMaterialLines == 2
MaxSupplierLinks == 2
MaxAuditLogs == 4
MaxFeedback == 1

\* users: 1 admin, 2 manager of unit 1, 3 viewer of unit 1, 4 deputy of
\* unit 2, 5 a user without a unit
InitUsers ==
    (1 :> [username |-> "u1", is_admin |-> TRUE,  personnel_id |-> 1, service_unit_id |-> None, theme |-> "default"]) @@
    (2 :> [username |-> "u2", is_admin |-> FALSE, personnel_id |-> 2, service_unit_id |-> 1, theme |-> "default"]) @@
    (3 :> [username |-> "u3", is_admin |-> FALSE, personnel_id |-> 3, service_unit_id |-> 1, theme |-> "default"]) @@
    (4 :> [username |-> "u4", is_admin |-> FALSE, personnel_id |-> 4, service_unit_id |-> 2, theme |-> "default"]) @@
    (5 :> [username |-> "u5", is_admin |-> FALSE, personnel_id |-> 5, service_unit_id |-> None, theme |-> "default"])

InitServiceUnits ==
    (1 :> [manager_personnel_id |-> 2, deputy_personnel_id |-> None]) @@
    (2 :> [manager_personnel_id |-> None, deputy_personnel_id |-> 4])

InitPersonnel ==
    (1 :> [is_active |-> TRUE, service_unit_id |-> None]) @@
    (2 :> [is_active |-> TRUE, service_unit_id |-> 1]) @@
    (3 :> [is_active |-> TRUE, service_unit_id |-> 1]) @@
    (4 :> [is_active |-> TRUE, service_unit_id |-> 2]) @@
    (5 :> [is_active |-> TRUE, service_unit_id |-> None])

InitWithholdingProfiles ==
    (1 :> [description |-> "WP", mt_eloa_percent |-> 600, eadhsy_percent |-> 10,
           withholding1_percent |-> 0, withholding2_percent |-> 0, is_active |-> TRUE])

InitIncomeTaxRules ==
    (1 :> [description |-> "FE", rate_percent |-> 800, threshold_amount |-> 150,
           is_active |-> TRUE]) @@
    (2 :> [description |-> "FE old", rate_percent |-> 400, threshold_amount |-> 150,
           is_active |-> FALSE])

InitCommittees ==
    (1 :> [service_unit_id |-> 1, description |-> "c1", president_personnel_id |-> None,
           member1_personnel_id |-> None, member2_personnel_id |-> None,
           is_active |-> TRUE]) @@
    (2 :> [service_unit_id |-> 2, description |-> "c2", president_personnel_id |-> None,
           member1_personnel_id |-> None, member2_personnel_id |-> None,
           is_active |-> TRUE])

InitOptionValues == [KATASTASH |-> {"S1"}, STADIO |-> {"T1"}]

SupplierIds == {1, 2}

InitMaster ==
    /\ users = InitUsers
    /\ service_units = InitServiceUnits
    /\ personnel = InitPersonnel
    /\ withholding_profiles = InitWithholdingProfiles
    /\ income_tax_rules = InitIncomeTaxRules
    /\ committees = InitCommittees
    /\ option_values = InitOptionValues

Init ==
    /\ InitMaster
    /\ procurements = Empty
    /\ material_lines = Empty
    /\ procurement_suppliers = Empty
    /\ audit_logs = 0
    /\ feedback = 0
    /\ sessions = NoSessions
    /\ db_lock = None
    /\ request = NoRequest
    /\ response = 0
    /\ analysis = {}
    /\ access = {}

\* the form of create / edit / implementation with every field left empty
EmptyForm ==
    [service_unit_id |-> None, description |-> "", status |-> "", stage |-> "",
     vat_rate |-> None, hop_approval |-> "", handler_personnel_id |-> None,
     income_tax_rule_id |-> None, withholding_profile_id |-> None,
     committee_id |-> None, adam_aay |-> "", send_to_expenses |-> FALSE]

ProcurementIds == 1 .. MaxProcurements
MaterialLineIds == 1 .. MaxMaterialLines
SupplierLinkIds == 1 .. MaxSupplierLinks


-----------------------------------------------------------------------------
(* The routes as requested by a set of actors with a set of forms.  The    *)
(* tables are bounded: no request is served once audit_logs is full, no    *)
(* row is added to a full table.                                           *)

PostCreateProcurement(actors, forms) ==
    \E uid \in actors, form \in forms :
        /\ audit_logs < MaxAuditLogs
        /\ NextId(procurements) <= MaxProcurements
        /\ CreateProcurement(uid, form)

PostEditProcurement(actors, forms) ==
    \E uid \in actors, pid \in ProcurementIds, form \in forms :
        /\ audit_logs < MaxAuditLogs
        /\ EditProcurement(uid, pid, form)

PostImplementationProcurement(actors, forms) ==
    \E uid \in actors, pid \in ProcurementIds, form \in forms :
        /\ audit_logs < MaxAuditLogs
        /\ ImplementationProcurement(uid, pid, form)

PostAddMaterialLine(actors, forms) ==
    \E uid \in actors, pid \in ProcurementIds, form \in forms :
        /\ audit_logs < MaxAuditLogs
        /\ NextId(material_lines) <= MaxMaterialLines
        /\ AddMaterialLine(uid, pid, form)

PostDeleteMaterialLine(actors) ==
    \E uid \in actors, pid \in ProcurementIds, line_id \in MaterialLineIds :
        /\ audit_logs < MaxAuditLogs
        /\ DeleteMaterialLine(uid, pid, line_id)

PostAddProcurementSupplier(actors, forms) ==
    \E uid \in actors, pid \in ProcurementIds, form \in forms :
        /\ audit_logs < MaxAuditLogs
        /\ NextId(procurement_suppliers) <= MaxSupplierLinks
        /\ AddProcurementSupplier(uid, pid, form)

PostDeleteProcurementSupplier(actors) ==
    \E uid \in actors, pid \in ProcurementIds, link_id \in SupplierLinkIds :
        /\ audit_logs < MaxAuditLogs
        /\ DeleteProcurementSupplier(uid, pid, link_id)

PostSettingsTheme(actors, selections) ==
    \E uid \in actors, selected \in selections :
        /\ audit_logs < MaxAuditLogs
        /\ SettingsTheme(uid, selected)

PostSettingsFeedback(actors, forms) ==
    \E uid \in actors, form \in forms :
        /\ audit_logs < MaxAuditLogs
        /\ feedback < MaxFeedback
        /\ SettingsFeedback(uid, form)

PostOptionsStatus(actors, forms) ==
    \E uid \in actors, form \in forms :
        /\ audit_logs < MaxAuditLogs
        /\ OptionsStatus(uid, form)

RequestMethodNotAllowed(actors, methods) ==
    \E uid \in actors, method \in methods :
        /\ audit_logs < MaxAuditLogs
        /\ MethodNotAllowed(uid, method)

-----------------------------------------------------------------------------
(* Every route, requested by the admin, the manager of unit 1, the viewer  *)
(* of unit 1 and the anonymous user; the self-service routes and the       *)
(* unrouted methods, requested by the manager and the viewer               *)

GuardActors == {1, 2, 3, None}

SelfServiceActors == {2, 3}

GuardProcurementForms ==
    {[EmptyForm EXCEPT !.service_unit_id = 1, !.description = "d",
                       !.hop_approval = "H1", !.send_to_expenses = TRUE]}

GuardMaterialLineForms == {[description |-> "m", quantity |-> 150, unit_price |-> 105]}

GuardSupplierForms == {[supplier_id |-> 1, is_winner |-> TRUE]}

GuardThemes == {"dark"}

GuardFeedbackForms == {[subject |-> "s", message |-> "m"]}

GuardOptionForms == {[action |-> "delete", value |-> "S1", is_active |-> TRUE]}

Next ==
    \/ PostCreateProcurement(GuardActors, GuardProcurementForms)
    \/ PostEditProcurement(GuardActors, GuardProcurementForms)
    \/ PostImplementationProcurement(GuardActors, GuardProcurementForms)
    \/ PostAddMaterialLine(GuardActors, GuardMaterialLineForms)
    \/ PostDeleteMaterialLine(GuardActors)
    \/ PostAddProcurementSupplier(GuardActors, GuardSupplierForms)
    \/ PostDeleteProcurementSupplier(GuardActors)
    \/ PostSettingsTheme(SelfServiceActors, GuardThemes)
    \/ PostSettingsFeedback(SelfServiceActors, GuardFeedbackForms)
    \/ PostOptionsStatus(GuardActors, GuardOptionForms)
    \/ RequestMethodNotAllowed(SelfServiceActors, {"PUT", "PATCH", "DELETE"})

Spec == Init /\ [][Next]_vars

\* the actor is authenticated and neither admin nor manager/deputy
Viewer(uid) ==
    /\ uid # None
    /\ ~users[uid].is_admin
    /\ ~(\E su \in DOMAIN service_units :
            /\ su = users[uid].service_unit_id
            /\ \/ service_units[su].manager_personnel_id = users[uid].personnel_id
               \/ service_units[su].deputy_personnel_id = users[uid].personnel_id)

\* C5: a POST/PUT/PATCH/DELETE request of an authenticated actor who is
\* neither admin nor manager/deputy, to any endpoint but settings.theme,
\* settings.feedback and auth.logout, is answered 403 and commits nothing;
\* no request of such an actor changes a procurement, a material line, a
\* supplier link or a master-data record.
C5_ViewerReadOnly ==
    [][Viewer(request'.user) =>
          /\ (/\ request'.method \in {"POST", "PUT", "PATCH", "DELETE"}
              /\ request'.endpoint \notin {"settings.theme", "settings.feedback", "auth.logout"})
             => (response' = 403 /\ UNCHANGED db)
          /\ UNCHANGED <<procurements, material_lines, procurement_suppliers, master>>]_vars

\* the viewer of unit 1 asked to delete an existing material line of an
\* existing procurement and was answered 403
C5_Witness ==
    /\ Viewer(request.user)
    /\ request.method = "POST"
    /\ request.endpoint = "procurements.delete_material_line"
    /\ response = 403
    /\ procurements # Empty
    /\ material_lines # Empty

-----------------------------------------------------------------------------
(* create / edit / implementation, requested by the admin and the manager   *)
(* of unit 1 with every combination of hop_approval and send_to_expenses    *)

WorkflowActors == {1, 2}

WorkflowForms ==
    {[EmptyForm EXCEPT !.service_unit_id = 1, !.description = "d", !.adam_aay = "A1",
                       !.hop_approval = hop, !.send_to_expenses = send] :
        hop \in {"", " ", "H1"}, send \in BOOLEAN}

NextWorkflow ==
    \/ PostCreateProcurement(WorkflowActors, WorkflowForms)
    \/ PostEditProcurement(WorkflowActors, WorkflowForms)
    \/ PostImplementationProcurement(WorkflowActors, WorkflowForms)

SpecWorkflow == Init /\ [][NextWorkflow]_vars

\* the request commits
Commits == audit_logs' # audit_logs

\* the form asks for send_to_expenses with an empty hop_approval
AsksWithoutApproval(form) ==
    form.send_to_expenses /\ form.hop_approval \in {"", " "}

\* C6: after every create / edit / implementation POST a procurement with
\* send_to_expenses set has a non-empty hop_approval, and a committed request
\* that asks for send_to_expenses with an empty hop_approval stores
\* send_to_expenses = FALSE.
C6_SendRequiresApproval ==
    [][/\ \A pid \in DOMAIN procurements' :
             procurements'[pid].send_to_expenses
                => procurements'[pid].hop_approval \notin {NoneText, ""}
       /\ \A uid \in WorkflowActors, form \in WorkflowForms :
             AsksWithoutApproval(form) =>
                /\ (CreateProcurement(uid, form) /\ Commits)
                      => ~procurements'[NextId(procurements)].send_to_expenses
                /\ \A pid \in DOMAIN procurements :
                      (Commits /\ (\/ EditProcurement(uid, pid, form)
                                   \/ ImplementationProcurement(uid, pid, form)))
                         => ~procurements'[pid].send_to_expenses]_vars

\* an implementation POST (it stored adam_aay) has cleared hop_approval of a
\* procurement that was sent to expenses, and send_to_expenses is FALSE;
\* another procurement is sent to expenses with its hop_approval
C6_Witness ==
    /\ \E pid \in DOMAIN procurements :
          /\ procurements[pid].adam_aay = "A1"
          /\ procurements[pid].hop_approval = NoneText
          /\ ~procurements[pid].send_to_expenses
    /\ \E pid \in DOMAIN procurements :
          /\ procurements[pid].hop_approval = "H1"
          /\ procurements[pid].send_to_expenses

-----------------------------------------------------------------------------
(* Supplier participations added and deleted one request after another by  *)
(* the manager of unit 1                                                   *)

SupplierActors == {2}

SupplierForms == [supplier_id : SupplierIds \cup {None}, is_winner : BOOLEAN]

NextSuppliers ==
    \/ PostCreateProcurement(SupplierActors, GuardProcurementForms)
    \/ PostAddProcurementSupplier(SupplierActors, SupplierForms)
    \/ PostDeleteProcurementSupplier(SupplierActors)

SpecSuppliers == Init /\ [][NextSuppliers]_vars

\* the winning participations of a procurement
Winners(pid, links) ==
    {i \in DOMAIN links : links[i].procurement_id = pid /\ links[i].is_winner}

\* C7: after every add / delete of a supplier participation each procurement
\* has at most one participation with is_winner set, and a committed add with
\* is_winner set leaves the new participation as the only winner of its
\* procurement.
C7_SingleWinner ==
    [][/\ \A pid \in DOMAIN procurements' :
             Cardinality(Winners(pid, procurement_suppliers')) <= 1
       /\ \A uid \in SupplierActors, pid \in DOMAIN procurements, form \in SupplierForms :
             (form.is_winner /\ Commits /\ AddProcurementSupplier(uid, pid, form))
                => Winners(pid, procurement_suppliers') = {NextId(procurement_suppliers)}]_vars

\* a procurement has two participations, the older one not a winner and the
\* one just added the winner
C7_Witness ==
    /\ request.endpoint = "procurements.add_procurement_supplier"
    /\ \E pid \in DOMAIN procurements, i, j \in DOMAIN procurement_suppliers :
          /\ i < j
          /\ procurement_suppliers[i].procurement_id = pid
          /\ procurement_suppliers[j].procurement_id = pid
          /\ ~procurement_suppliers[i].is_winner
          /\ procurement_suppliers[j].is_winner
          /\ audit_logs = 3

-----------------------------------------------------------------------------
(* Procurements and their material lines, written by the manager of unit 1 *)

TotalsActors == {2}

TotalsProcurementForms ==
    {[EmptyForm EXCEPT !.description = "d", !.hop_approval = "H1",
                       !.send_to_expenses = TRUE, !.vat_rate = vat] :
        vat \in {None, 0, 2400, 240000}}

TotalsMaterialLineForms ==
    [description : {"m"}, quantity : {None, 150}, unit_price : {105}]

NextTotals ==
    \/ PostCreateProcurement(TotalsActors, TotalsProcurementForms)
    \/ PostEditProcurement(TotalsActors, TotalsProcurementForms)
    \/ PostImplementationProcurement(TotalsActors, TotalsProcurementForms)
    \/ PostAddMaterialLine(TotalsActors, TotalsMaterialLineForms)
    \/ PostDeleteMaterialLine(TotalsActors)

SpecTotals == Init /\ [][NextTotals]_vars

\* money(sum of quantity * unit_price) over the lines the procurement owns
OwnedLinesMoney(pid) ==
    LET owned == {i \in DOMAIN material_lines : material_lines[i].procurement_id = pid}
        Sum[ids \in SUBSET owned] ==
            IF ids = {} THEN 0
            ELSE LET i == CHOOSE x \in ids : TRUE
                 IN material_lines[i].quantity * material_lines[i].unit_price
                    + Sum[ids \ {i}]
    IN RoundHalfUp(Sum[owned], 100)

\* vat_rate as a fraction (10^-7): a value above 1 is a percent
VatFraction(vat_rate) ==
    IF vat_rate > 10000 THEN (vat_rate * 1000) \div 100 ELSE vat_rate * 1000

\* C8: the stored derived fields of every procurement are fresh: sum_total is
\* the money of the lines it owns, vat_amount is money(sum_total * vat rate)
\* (0 without a vat rate) and grand_total is money(sum_total + vat_amount).
C8_DerivedFresh ==
    \A pid \in DOMAIN procurements :
        LET p == procurements[pid]
        IN /\ p.sum_total = OwnedLinesMoney(pid)
           /\ p.vat_amount = IF p.vat_rate \in {None, 0} THEN 0
                             ELSE RoundHalfUp(p.sum_total * VatFraction(p.vat_rate), 10000000)
           /\ p.grand_total = p.sum_total + p.vat_amount

-----------------------------------------------------------------------------
(* Two concurrent sessions of the manager of unit 1 adding suppliers to    *)
(* procurement 1                                                           *)

SessionIds == {1, 2}

RaceActors == {2}

RaceForms == [supplier_id : SupplierIds, is_winner : BOOLEAN]

InitRace ==
    /\ InitMaster
    /\ procurements =
          (1 :> recalc_totals(ProcurementRow(1, "d", None, "H1", TRUE, None, None), 1, Empty))
    /\ material_lines = Empty
    /\ procurement_suppliers = Empty
    /\ audit_logs = 1
    /\ feedback = 0
    /\ sessions = [s \in SessionIds |-> IdleSession]
    /\ db_lock = None
    /\ request = NoRequest
    /\ response = 0
    /\ analysis = {}
    /\ access = {}

RaceCheck ==
    \E s \in SessionIds, uid \in RaceActors, pid \in DOMAIN procurements, form \in RaceForms :
        /\ audit_logs < MaxAuditLogs
        /\ AddProcurementSupplierCheck(s, uid, pid, form)

RaceLoad == \E s \in SessionIds : AddProcurementSupplierLoad(s)

RaceFlush == \E s \in SessionIds : AddProcurementSupplierFlush(s)

RaceBusy == \E s \in SessionIds : AddProcurementSupplierBusy(s)

RaceCommit == \E s \in SessionIds : AddProcurementSupplierCommit(s)

NextRace == RaceCheck \/ RaceLoad \/ RaceFlush \/ RaceBusy \/ RaceCommit

SpecRace == InitRace /\ [][NextRace]_vars

\* C30: when two add_procurement_supplier requests on one procurement, for
\* different suppliers and both with is_winner set, have both committed,
\* at most one participation of the procurement is the winner.
C30_OneWinnerAfterRace ==
    \A s, t \in SessionIds :
        (/\ s # t
         /\ sessions[s].pc = "idle" /\ sessions[s].outcome = "added"
         /\ sessions[t].pc = "idle" /\ sessions[t].outcome = "added"
         /\ sessions[s].is_winner /\ sessions[t].is_winner
         /\ sessions[s].procurement_id = sessions[t].procurement_id
         /\ sessions[s].supplier_id # sessions[t].supplier_id)
           => Cardinality(Winners(sessions[s].procurement_id, procurement_suppliers)) <= 1

\* C9: under every interleaving of add_procurement_supplier requests no two
\* committed participations have the same (procurement, supplier) pair, and
\* a request rejected by the existence check or by the unique constraint
\* leaves the committed participations as they were.
C9_UniquePair ==
    [][/\ \A i, j \in DOMAIN procurement_suppliers' :
             (/\ procurement_suppliers'[i].procurement_id = procurement_suppliers'[j].procurement_id
              /\ procurement_suppliers'[i].supplier_id = procurement_suppliers'[j].supplier_id)
                => i = j
       /\ \A s \in DOMAIN sessions' :
             (sessions'[s] # sessions[s] /\ sessions'[s].outcome \in {"exists", "IntegrityError"})
                => UNCHANGED procurement_suppliers]_vars

\* a racing insert was rejected by the unique constraint: the pair was
\* committed by the other session after this session's existence check
C9_Witness ==
    \E s \in DOMAIN sessions :
        /\ sessions[s].outcome = "IntegrityError"
        /\ \E i \in DOMAIN procurement_suppliers :
              /\ procurement_suppliers[i].procurement_id = sessions[s].procurement_id
              /\ procurement_suppliers[i].supplier_id = sessions[s].supplier_id

-----------------------------------------------------------------------------
(* Payment analysis of one procurement, over bounded reference data *)

MaxCalls == 2

SumTotals == {None, 0, 50, 125, 149, 150, 200}
VatRates == {None, 0, 600, 2400, 10000, 240000}        \* NULL, 0, 0.06, 0.24, 1, 24
PercentValues == {0, 10, 600}                         \* 0.00, 0.10, 6.00 (%)
RatePercents == {0, 50, 800}                          \* 0.00, 0.50, 8.00 (%)
Thresholds == {0, 149, 150}

WithholdingProfileRows ==
    [description : {"WP"}, mt_eloa_percent : PercentValues, eadhsy_percent : PercentValues,
     withholding1_percent : {0, 50}, withholding2_percent : {0, 10},
     is_active : BOOLEAN]

IncomeTaxRuleRows ==
    [description : {"FE"}, rate_percent : RatePercents,
     threshold_amount : Thresholds, is_active : BOOLEAN]


InitCalc ==
    /\ users = Empty
    /\ service_units = Empty
    /\ \E st \in SumTotals, vat \in VatRates, rule \in {None, 1}, wp \in {None, 1} :
          procurements = (1 :> [ProcurementRow(None, "d", vat, NoneText, FALSE, rule, wp)
                                 EXCEPT !.sum_total = st])
    /\ material_lines = Empty
    /\ procurement_suppliers = Empty
    /\ \E w \in WithholdingProfileRows :
          withholding_profiles = IF procurements[1].withholding_profile_id = None
                                 THEN Empty ELSE (1 :> w)
    /\ \E r \in IncomeTaxRuleRows :
          income_tax_rules = IF procurements[1].income_tax_rule_id = None
                             THEN Empty ELSE (1 :> r)
    /\ personnel = Empty
    /\ committees = Empty
    /\ option_values = NoOptions
    /\ audit_logs = 0
    /\ feedback = 0
    /\ sessions = NoSessions
    /\ db_lock = None
    /\ request = NoRequest
    /\ response = 0
    /\ analysis = {}
    /\ access = {}

\* the calls of compute_payment_analysis made so far on procurement pid
CallsOn(pid) == {a \in analysis : a.procurement_id = pid}

\* a call that also stores the computed vat_amount on the procurement
ComputePaymentAnalysis_Storing(pid) ==
    /\ pid \in DOMAIN procurements
    /\ Cardinality(CallsOn(pid)) < MaxCalls
    /\ analysis' = analysis \cup {[procurement_id |-> pid,
                                   call |-> Cardinality(CallsOn(pid)) + 1,
                                   report |-> compute_payment_analysis(procurements[pid])]}
    /\ procurements' = [procurements EXCEPT
                           ![pid].vat_amount = compute_payment_analysis(procurements[pid]).vat_amount]
    /\ UNCHANGED <<users, master, material_lines, procurement_suppliers, audit_logs,
                   feedback, sessions, db_lock, request, response, access>>

\* a call of procurement.compute_payment_analysis(); the report is kept with
\* the number of the call
ComputePaymentAnalysis(pid) ==
    /\ pid \in DOMAIN procurements
    /\ Cardinality(CallsOn(pid)) < MaxCalls
    /\ analysis' = analysis \cup {[procurement_id |-> pid,
                                   call |-> Cardinality(CallsOn(pid)) + 1,
                                   report |-> compute_payment_analysis(procurements[pid])]}
    /\ UNCHANGED <<db, request, response, access>>

AnyComputePaymentAnalysis == \E pid \in DOMAIN procurements : ComputePaymentAnalysis(pid)

NextCalc == AnyComputePaymentAnalysis

SpecCalc == InitCalc /\ [][NextCalc]_vars

-----------------------------------------------------------------------------
\* C1: every report returned by compute_payment_analysis satisfies
\* payable_total = sum_total - public_withholdings.total_amount
\*                 - income_tax.amount + vat_amount, on the report's own values.
C1_PayableIdentity ==
    \A a \in analysis :
        a.report.payable_total =
            a.report.sum_total - a.report.public_withholdings.total_amount
            - a.report.income_tax.amount + a.report.vat_amount

\* a report with withholdings, income tax and VAT all non-zero
C1_Witness ==
    \E a \in analysis :
        /\ a.report.public_withholdings.total_amount > 0
        /\ a.report.income_tax.amount > 0
        /\ a.report.vat_amount > 0
        /\ a.report.payable_total # a.report.sum_total

\* C10: for an active rule and a subtotal above the threshold the tax is
\* money(after_withholding * rate_percent / 100), rate_percent being a pure
\* percent at every value (0.50 means 0.50%).
C10_IncomeTaxPurePercent ==
    \A a \in analysis :
        LET p == procurements[a.procurement_id]
            after == a.report.sum_total - a.report.public_withholdings.total_amount
        IN (/\ HasIncomeTaxRule(p)
            /\ IncomeTaxRuleOf(p).is_active
            /\ ToDecimal(p.sum_total) > IncomeTaxRuleOf(p).threshold_amount)
           => a.report.income_tax.amount =
                  MoneyOfProduct(after, PercentToFraction(IncomeTaxRuleOf(p).rate_percent))

\* the procurement has a withholding profile / an income-tax rule in force
ProfileInForce(p) == HasWithholdingProfile(p) /\ WithholdingProfileOf(p).is_active
RuleInForce(p) == HasIncomeTaxRule(p) /\ IncomeTaxRuleOf(p).is_active

\* the subtotal of a procurement row, in cents
Subtotal(p) == IF p.sum_total = None THEN 0 ELSE p.sum_total

\* the fraction (10^-7) at which a rule's rate is applied: a rate above 1.00
\* is a percent
AppliedRate(rate_percent) ==
    IF rate_percent > 100 THEN rate_percent * 1000 ELSE rate_percent * 100000

\* C11 as stated: for an active rule a subtotal equal to the threshold gives
\* tax 0 and a subtotal of threshold + 0.01 gives a tax greater than 0.
C11_ThresholdBoundary ==
    \A a \in analysis :
        LET p == procurements[a.procurement_id]
        IN RuleInForce(p) =>
              /\ Subtotal(p) = IncomeTaxRuleOf(p).threshold_amount
                    => a.report.income_tax.amount = 0
              /\ Subtotal(p) = IncomeTaxRuleOf(p).threshold_amount + 1
                    => a.report.income_tax.amount > 0

\* C11 amended: for an active rule a subtotal equal to the threshold gives
\* tax 0; a subtotal of threshold + 0.01 gives a tax greater than 0 exactly
\* when (subtotal - withholdings) * rate is at least 0.005, so not for a
\* rule with rate 0.00.
C11_ThresholdBoundaryRounded ==
    \A a \in analysis :
        LET p == procurements[a.procurement_id]
            after == Subtotal(p) - a.report.public_withholdings.total_amount
        IN RuleInForce(p) =>
              /\ Subtotal(p) = IncomeTaxRuleOf(p).threshold_amount
                    => a.report.income_tax.amount = 0
              /\ Subtotal(p) = IncomeTaxRuleOf(p).threshold_amount + 1
                    => (a.report.income_tax.amount > 0
                          <=> 2 * after * AppliedRate(IncomeTaxRuleOf(p).rate_percent) >= 10000000)

\* both sides of the boundary: a report at threshold + 0.01 with a positive
\* tax, for a rule of 8.00% and threshold 149
C11_Witness ==
    \E a \in analysis :
        LET p == procurements[a.procurement_id]
        IN /\ RuleInForce(p)
           /\ IncomeTaxRuleOf(p).rate_percent = 800
           /\ Subtotal(p) = IncomeTaxRuleOf(p).threshold_amount + 1
           /\ a.report.income_tax.amount > 0

\* C12: the threshold test is on the raw subtotal: above the threshold the
\* tax is money((subtotal - withholdings total) * rate) even when that base
\* is at or below the threshold; at or below the threshold the tax is 0.
C12_RawSubtotalGate ==
    \A a \in analysis :
        LET p == procurements[a.procurement_id]
            after == Subtotal(p) - a.report.public_withholdings.total_amount
        IN RuleInForce(p) =>
              IF Subtotal(p) > IncomeTaxRuleOf(p).threshold_amount
              THEN a.report.income_tax.amount =
                      RoundHalfUp(after * AppliedRate(IncomeTaxRuleOf(p).rate_percent), 10000000)
              ELSE a.report.income_tax.amount = 0

\* a subtotal above the threshold whose after-withholding base is not, taxed
C12_Witness ==
    \E a \in analysis :
        LET p == procurements[a.procurement_id]
            after == Subtotal(p) - a.report.public_withholdings.total_amount
        IN /\ RuleInForce(p)
           /\ Subtotal(p) > IncomeTaxRuleOf(p).threshold_amount
           /\ after <= IncomeTaxRuleOf(p).threshold_amount
           /\ a.report.income_tax.amount > 0

\* C13: without a withholding profile in force the breakdown is empty with
\* total 0; without an income-tax rule in force the tax is 0 and its
\* description is null.
C13_AbsentIsZero ==
    \A a \in analysis :
        LET p == procurements[a.procurement_id]
        IN /\ ~ProfileInForce(p) =>
                 /\ a.report.public_withholdings.items = <<>>
                 /\ a.report.public_withholdings.total_amount = 0
           /\ ~RuleInForce(p) =>
                 /\ a.report.income_tax.amount = 0
                 /\ a.report.income_tax.description = NoneText

\* a report for an inactive profile with a 6% component and an inactive rule
\* of 8%, on a subtotal above the rule's threshold
C13_Witness ==
    \E a \in analysis :
        LET p == procurements[a.procurement_id]
        IN /\ HasWithholdingProfile(p) /\ ~WithholdingProfileOf(p).is_active
           /\ WithholdingProfileOf(p).mt_eloa_percent = 600
           /\ HasIncomeTaxRule(p) /\ ~IncomeTaxRuleOf(p).is_active
           /\ IncomeTaxRuleOf(p).rate_percent = 800
           /\ Subtotal(p) > IncomeTaxRuleOf(p).threshold_amount

\* the components of a profile in declaration order
Components(profile) ==
    << [label |-> "MT-ELOA",   percent |-> profile.mt_eloa_percent],
       [label |-> "EADHSY",    percent |-> profile.eadhsy_percent],
       [label |-> "KRATHSH 1", percent |-> profile.withholding1_percent],
       [label |-> "KRATHSH 2", percent |-> profile.withholding2_percent] >>

\* the non-zero components, each with money(subtotal * percent / 100)
ExpectedItems(p) ==
    LET NonZero(c) == c.percent # 0
        kept == SelectSeq(Components(WithholdingProfileOf(p)), NonZero)
    IN [i \in 1 .. Len(kept) |->
          [label |-> kept[i].label, percent |-> kept[i].percent,
           amount |-> RoundHalfUp(Subtotal(p) * kept[i].percent, 10000)]]

\* C14: for an active profile the breakdown lists exactly the components
\* with a non-zero percent, in declaration order, each with the amount
\* money(subtotal * percent / 100), the percent being a pure percent.
C14_BreakdownItems ==
    \A a \in analysis :
        LET p == procurements[a.procurement_id]
        IN ProfileInForce(p) => a.report.public_withholdings.items = ExpectedItems(p)

\* a breakdown of two items around a skipped zero component, one of them a
\* percent below 1 (0.50%)
C14_Witness ==
    \E a \in analysis :
        LET p == procurements[a.procurement_id]
        IN /\ ProfileInForce(p)
           /\ WithholdingProfileOf(p).mt_eloa_percent = 600
           /\ WithholdingProfileOf(p).eadhsy_percent = 0
           /\ WithholdingProfileOf(p).withholding1_percent = 50
           /\ Len(a.report.public_withholdings.items) = 2
           /\ a.report.public_withholdings.items[2].amount > 0

\* the sum of a field over the items of a breakdown
ItemsSum(items, field) ==
    LET Sum[i \in 0 .. Len(items)] == IF i = 0 THEN 0 ELSE Sum[i - 1] + items[i][field]
    IN Sum[Len(items)]

\* C15: total_amount is the sum of the rounded item amounts and
\* total_percent the sum of the item percents.
C15_TotalsAreItemSums ==
    \A a \in analysis :
        LET w == a.report.public_withholdings
        IN /\ w.total_amount = ItemsSum(w.items, "amount")
           /\ w.total_percent = ItemsSum(w.items, "percent")

\* a breakdown whose total differs from money(subtotal * total_percent / 100)
C15_Witness ==
    \E a \in analysis :
        LET p == procurements[a.procurement_id]
            w == a.report.public_withholdings
        IN /\ Len(w.items) >= 2
           /\ w.total_amount # RoundHalfUp(Subtotal(p) * w.total_percent, 10000)

-----------------------------------------------------------------------------
(* The VAT rate in its two stored forms: procurement 1 stores the percent   *)
(* p and procurement 2 stores p / 100; both own equal material lines and    *)
(* share the profile and the rule.                                          *)

\* p with 1 < p <= 100, in units of 10^-4: 1.50, 6.00, 24.00, 100.00
VatPercents == {15000, 60000, 240000, 1000000}

\* quantity (hundredths) and unit price (cents) of the line of each procurement
VatLines == {<<100, 50>>, <<100, 125>>, <<150, 105>>, <<100, 200>>}

InitVat ==
    /\ users = Empty
    /\ service_units = Empty
    /\ \E st \in {0, 125, 200}, v \in VatPercents, rule \in {None, 1}, wp \in {None, 1} :
          procurements =
             (1 :> [ProcurementRow(None, "d", v, NoneText, FALSE, rule, wp)
                      EXCEPT !.sum_total = st]) @@
             (2 :> [ProcurementRow(None, "d", v \div 100, NoneText, FALSE, rule, wp)
                      EXCEPT !.sum_total = st])
    /\ \E l \in VatLines :
          material_lines =
             (1 :> [procurement_id |-> 1,
                    quantity |-> l[1], unit_price |-> l[2]]) @@
             (2 :> [procurement_id |-> 2,
                    quantity |-> l[1], unit_price |-> l[2]])
    /\ procurement_suppliers = Empty
    /\ withholding_profiles = InitWithholdingProfiles
    /\ income_tax_rules = InitIncomeTaxRules
    /\ personnel = Empty
    /\ committees = Empty
    /\ option_values = NoOptions
    /\ audit_logs = 0
    /\ feedback = 0
    /\ sessions = NoSessions
    /\ db_lock = None
    /\ request = NoRequest
    /\ response = 0
    /\ analysis = {}
    /\ access = {}

\* procurement.recalc_totals() on the loaded row
RecalcTotals(pid) ==
    /\ pid \in DOMAIN procurements
    /\ procurements' = [procurements EXCEPT
                          ![pid] = recalc_totals(procurements[pid], pid, material_lines)]
    /\ UNCHANGED <<users, master, material_lines, procurement_suppliers, audit_logs,
                   feedback, sessions, db_lock, request, response, analysis, access>>

AnyRecalcTotals == \E pid \in DOMAIN procurements : RecalcTotals(pid)

NextVat == AnyComputePaymentAnalysis \/ AnyRecalcTotals

SpecVat == InitVat /\ [][NextVat]_vars

\* C16: for 1 < p <= 100 the rate stored as p and the rate stored as p / 100
\* give the same vat_amount, payable_total and displayed vat_percent p in
\* compute_payment_analysis on equal subtotals, and the same vat_amount and
\* grand_total in recalc_totals.
C16_VatFormsAgree ==
    /\ \A a \in CallsOn(1), b \in CallsOn(2) :
          a.report.sum_total = b.report.sum_total =>
             /\ a.report.vat_amount = b.report.vat_amount
             /\ a.report.payable_total = b.report.payable_total
             /\ a.report.vat_percent = b.report.vat_percent
             /\ a.report.vat_percent * 100 = procurements[1].vat_rate
    /\ (procurements[1].vat_amount # None /\ procurements[2].vat_amount # None) =>
          /\ procurements[1].sum_total = procurements[2].sum_total
          /\ procurements[1].vat_amount = procurements[2].vat_amount
          /\ procurements[1].grand_total = procurements[2].grand_total

\* both forms analysed on one positive subtotal and both recalculated, with
\* a positive VAT
C16_Witness ==
    /\ \E a \in CallsOn(1), b \in CallsOn(2) :
          /\ a.report.sum_total = b.report.sum_total
          /\ a.report.vat_amount > 0
    /\ procurements[1].vat_amount # None /\ procurements[2].vat_amount # None
    /\ procurements[1].vat_amount > 0
    /\ procurements[2].vat_rate * 100 = procurements[1].vat_rate

-----------------------------------------------------------------------------
(* recalc_totals over the lines of one procurement: every assignment of     *)
(* non-negative quantities and unit prices, absent ones included, to up to  *)
(* MaxMaterialLines lines, so that every order of a set of lines occurs.    *)

\* quantities in hundredths, unit prices in cents
Quantities == {None, 0, 33, 150}
UnitPrices == {None, 0, 1, 105}

InitLines ==
    /\ users = Empty
    /\ service_units = Empty
    /\ \E vat \in {None, 2400} :
          procurements = (1 :> ProcurementRow(None, "d", vat, NoneText, FALSE, None, None))
    /\ \E n \in 0 .. MaxMaterialLines :
          \E q \in [1 .. n -> Quantities], u \in [1 .. n -> UnitPrices] :
             material_lines = [i \in 1 .. n |->
                                 [procurement_id |-> 1, quantity |-> q[i], unit_price |-> u[i]]]
    /\ procurement_suppliers = Empty
    /\ withholding_profiles = Empty
    /\ income_tax_rules = Empty
    /\ personnel = Empty
    /\ committees = Empty
    /\ option_values = NoOptions
    /\ audit_logs = 0
    /\ feedback = 0
    /\ sessions = NoSessions
    /\ db_lock = None
    /\ request = NoRequest
    /\ response = 0
    /\ analysis = {}
    /\ access = {}

NextLines == AnyRecalcTotals

SpecLines == InitLines /\ [][NextLines]_vars

\* what a line adds to the subtotal, in 10^-4: nothing when its quantity or
\* unit price is absent or zero
Contribution(line) ==
    IF line.quantity \in {None, 0} \/ line.unit_price \in {None, 0} THEN 0
    ELSE line.quantity * line.unit_price

\* the contributions of the lines of procurement pid added from the last
\* line to the first
ContributionsOf(pid) ==
    LET ids == {i \in DOMAIN material_lines : material_lines[i].procurement_id = pid}
        Sum[i \in 0 .. Len(material_lines)] ==
            IF i = 0 THEN 0
            ELSE Sum[i - 1] + (IF (Len(material_lines) + 1 - i) \in ids
                               THEN Contribution(material_lines[Len(material_lines) + 1 - i])
                               ELSE 0)
    IN Sum[Len(material_lines)]

\* C18: after recalc_totals, sum_total is the money-rounded sum of
\* quantity * unit_price over the procurement's lines, whatever their order,
\* a line with an absent or zero quantity or unit price adding 0, and it is
\* never negative.
C18_SumOfProducts ==
    \A pid \in DOMAIN procurements :
        procurements[pid].vat_amount # None =>
           /\ procurements[pid].sum_total = RoundHalfUp(ContributionsOf(pid), 100)
           /\ procurements[pid].sum_total >= 0

\* recalculated over a line of 1.50 x 1.05 = 1.575 and a line without a
\* quantity: 1.58
C18_Witness ==
    /\ procurements[1].vat_amount # None
    /\ procurements[1].sum_total = 158
    /\ \E i, j \in DOMAIN material_lines :
          /\ material_lines[i].quantity = 150 /\ material_lines[i].unit_price = 105
          /\ material_lines[j].quantity = None /\ material_lines[j].unit_price = 105

-----------------------------------------------------------------------------
(* app/blueprints/users/routes.py: create_user and edit_user, each in the   *)
(* steps its two commits cut it into, next to add_procurement_supplier      *)
(* requests of another session holding the write lock from flush to commit. *)

\* _available_personnel_for_user_dropdown(exclude_user_id): the active
\* personnel without a user, or with the user being edited
available_personnel(exclude_user_id) ==
    {i \in DOMAIN personnel :
        /\ personnel[i].is_active
        /\ \A u \in DOMAIN users :
              users[u].personnel_id = i => (exclude_user_id # None /\ u = exclude_user_id)}

\* the request of session s stops at pc after a commit, user_id the row
UserCommitted(s, uid, pc, user_id) ==
    sessions' = [sessions EXCEPT ![s] = [IdleSession EXCEPT !.pc = pc, !.user = uid,
                                                           !.user_id = user_id]]

\* the request of session s, started by uid, ends with status and outcome
UserRequestEnds(s, uid, status, outcome) ==
    sessions' = [sessions EXCEPT ![s] = [IdleSession EXCEPT !.user = uid,
                                                           !.response = status,
                                                           !.outcome = outcome]]

\* create_user up to its first commit: the user row alone is committed
CreateUserCommit(s, uid, form) ==
    LET before == BeforeView(uid, "POST", "users.create_user")
        id == NextId(users)
        user == [username |-> form.username, is_admin |-> form.is_admin,
                 personnel_id |-> form.personnel_id,
                 service_unit_id |-> form.service_unit_id, theme |-> "default"]
    IN /\ sessions[s].pc = "idle"
       /\ UNCHANGED <<master, procurements, material_lines, procurement_suppliers,
                      audit_logs, feedback, db_lock, request, response, analysis, access>>
       /\ IF before # 0
          THEN UserRequestEnds(s, uid, before, "refused") /\ UNCHANGED users
          ELSE IF ~admin_required(users[uid])
          THEN UserRequestEnds(s, uid, 403, "refused") /\ UNCHANGED users
          ELSE IF form.username = "" \/ form.password = ""
          THEN UserRequestEnds(s, uid, 302, "refused") /\ UNCHANGED users
          ELSE IF \E u \in DOMAIN users : users[u].username = form.username
          THEN UserRequestEnds(s, uid, 302, "refused") /\ UNCHANGED users
          ELSE IF form.personnel_id = None
                  \/ form.personnel_id \notin available_personnel(None)
          THEN UserRequestEnds(s, uid, 302, "refused") /\ UNCHANGED users
          ELSE IF db_lock # None
          THEN UserRequestEnds(s, uid, 500, "OperationalError") /\ UNCHANGED users
          ELSE /\ users' = Insert(users, id, user)
               /\ UserCommitted(s, uid, "created", id)

\* create_user from log_action to its second commit
CreateUserAudit(s) ==
    /\ sessions[s].pc = "created"
    /\ db_lock = None
    /\ audit_logs' = log_action("User", sessions[s].user_id, "CREATE")
    /\ sessions' = [sessions EXCEPT ![s].pc = "idle", ![s].response = 302,
                                    ![s].outcome = "created"]
    /\ UNCHANGED <<users, master, procurements, material_lines, procurement_suppliers,
                   feedback, db_lock, request, response, analysis, access>>

\* the second commit of create_user while another session holds the write
\* lock until the busy timeout: OperationalError, not caught by the view
CreateUserAuditBusy(s) ==
    /\ sessions[s].pc = "created"
    /\ db_lock \notin {None, s}
    /\ SessionEnds(s, 500, "OperationalError")
    /\ UNCHANGED db_lock

\* edit_user up to its first commit: the changed user row alone is committed
EditUserCommit(s, uid, user_id, form) ==
    LET before == BeforeView(uid, "POST", "users.edit_user")
    IN /\ sessions[s].pc = "idle"
       /\ UNCHANGED <<master, procurements, material_lines, procurement_suppliers,
                      audit_logs, feedback, db_lock, request, response, analysis, access>>
       /\ IF before # 0
          THEN UserRequestEnds(s, uid, before, "refused") /\ UNCHANGED users
          ELSE IF ~admin_required(users[uid])
          THEN UserRequestEnds(s, uid, 403, "refused") /\ UNCHANGED users
          ELSE IF user_id \notin DOMAIN users
          THEN UserRequestEnds(s, uid, 404, "refused") /\ UNCHANGED users
          ELSE IF form.personnel_id = None
                  \/ form.personnel_id \notin available_personnel(user_id)
          THEN UserRequestEnds(s, uid, 302, "refused") /\ UNCHANGED users
          ELSE IF db_lock # None
          THEN UserRequestEnds(s, uid, 500, "OperationalError") /\ UNCHANGED users
          ELSE /\ users' = [users EXCEPT ![user_id].is_admin = form.is_admin,
                                         ![user_id].service_unit_id = form.service_unit_id,
                                         ![user_id].personnel_id = form.personnel_id]
               /\ UserCommitted(s, uid, "updated", user_id)

\* edit_user from log_action to its second commit
EditUserAudit(s) ==
    /\ sessions[s].pc = "updated"
    /\ db_lock = None
    /\ audit_logs' = log_action("User", sessions[s].user_id, "UPDATE")
    /\ sessions' = [sessions EXCEPT ![s].pc = "idle", ![s].response = 302,
                                    ![s].outcome = "updated"]
    /\ UNCHANGED <<users, master, procurements, material_lines, procurement_suppliers,
                   feedback, db_lock, request, response, analysis, access>>

\* the second commit of edit_user while another session holds the write lock
EditUserAuditBusy(s) ==
    /\ sessions[s].pc = "updated"
    /\ db_lock \notin {None, s}
    /\ SessionEnds(s, 500, "OperationalError")
    /\ UNCHANGED db_lock

\* the admin and the manager of unit 1
AuditActors == {1, 2}

\* a complete form, and forms without a username, without a password, with
\* a taken username, without personnel and with personnel that has a user
CreateUserForm ==
    [username |-> "u3", password |-> "pw", is_admin |-> FALSE,
     service_unit_id |-> 1, personnel_id |-> 3]

CreateUserForms ==
    {CreateUserForm,
     [CreateUserForm EXCEPT !.username = ""],
     [CreateUserForm EXCEPT !.password = ""],
     [CreateUserForm EXCEPT !.username = "u2"],
     [CreateUserForm EXCEPT !.personnel_id = None],
     [CreateUserForm EXCEPT !.personnel_id = 2]}

\* the session that serves the user routes
UserSessions == {1}

EditUserForms ==
    [is_admin : {FALSE}, service_unit_id : {1, 2}, personnel_id : {None, 2, 3}]

\* the admin and the manager have accounts; personnel 3, 4 and 5 have none
InitAudit ==
    /\ users = [i \in {1, 2} |-> InitUsers[i]]
    /\ service_units = InitServiceUnits
    /\ personnel = InitPersonnel
    /\ withholding_profiles = InitWithholdingProfiles
    /\ income_tax_rules = InitIncomeTaxRules
    /\ committees = InitCommittees
    /\ option_values = InitOptionValues
    /\ procurements =
          (1 :> recalc_totals(ProcurementRow(1, "d", None, "H1", TRUE, None, None), 1, Empty))
    /\ material_lines = Empty
    /\ procurement_suppliers = Empty
    /\ audit_logs = 1
    /\ feedback = 0
    /\ sessions = [s \in SessionIds |-> IdleSession]
    /\ db_lock = None
    /\ request = NoRequest
    /\ response = 0
    /\ analysis = {}
    /\ access = {}

PostCreateUser ==
    \E s \in UserSessions, uid \in AuditActors, form \in CreateUserForms :
        /\ audit_logs < MaxAuditLogs
        /\ CreateUserCommit(s, uid, form)

PostEditUser ==
    \E s \in UserSessions, uid \in AuditActors, user_id \in {2, 3}, form \in EditUserForms :
        /\ audit_logs < MaxAuditLogs
        /\ EditUserCommit(s, uid, user_id, form)

UserAudit == \E s \in UserSessions : CreateUserAudit(s) \/ EditUserAudit(s)

UserAuditBusy == \E s \in UserSessions : CreateUserAuditBusy(s) \/ EditUserAuditBusy(s)

NextAudit == PostCreateUser \/ PostEditUser \/ UserAudit \/ UserAuditBusy \/ NextRace

SpecAudit == InitAudit /\ [][NextAudit]_vars

\* a commit changes a table that an audited route writes
AuditedChange ==
    \/ users' # users
    \/ personnel' # personnel
    \/ procurements' # procurements
    \/ material_lines' # material_lines
    \/ procurement_suppliers' # procurement_suppliers
    \/ service_units' # service_units
    \/ withholding_profiles' # withholding_profiles
    \/ income_tax_rules' # income_tax_rules
    \/ committees' # committees
    \/ option_values' # option_values

\* C19: every commit that changes a table written by an audited route
\* commits the audit-log entry of the change with it, so no committed state
\* holds a change without its audit entry.
C19_AuditedAtomic == [][AuditedChange => audit_logs' = audit_logs + 1]_vars

-----------------------------------------------------------------------------
(* app/blueprints/settings/routes.py: the committees route                  *)

\* manager_required: TRUE when the wrapped view runs, FALSE for 403
manager_required(u) == is_admin(u) \/ is_manager_or_deputy(u)

\* _active_personnel_for_dropdown(service_unit_id): ids of the active
\* personnel, of the unit when one is given
active_personnel_for_dropdown(service_unit_id) ==
    {i \in DOMAIN personnel :
        /\ personnel[i].is_active
        /\ Truthy(service_unit_id) => personnel[i].service_unit_id = service_unit_id}

\* the scope check without the comparison of the two units
ensure_committee_scope_or_403_AnyUnit(u, service_unit_id) ==
    IF u.is_admin THEN TRUE
    ELSE can_manage(u)

\* _ensure_committee_scope_or_403(service_unit_id): TRUE when it returns,
\* FALSE for abort(403)
ensure_committee_scope_or_403(u, service_unit_id) ==
    IF u.is_admin THEN TRUE
    ELSE IF ~Truthy(u.service_unit_id) \/ u.service_unit_id # service_unit_id THEN FALSE
    ELSE can_manage(u)

\* committees(): POST with form by uid
Committees(uid, form) ==
    LET endpoint == "settings.committees"
        before == BeforeView(uid, "POST", endpoint)
        u == users[uid]
        \* the admin's scope comes from request.args and passes the check
        \* whatever it is
        scope_service_unit_id == IF u.is_admin THEN None ELSE u.service_unit_id
        su_id == form.service_unit_id
        allowed_ids == active_personnel_for_dropdown(su_id)
        validate_member(pid) == IF pid = None THEN None
                                ELSE IF pid \in allowed_ids THEN pid ELSE None
        cid == form.id
        commit(table, action, id) ==
            /\ committees' = table
            /\ audit_logs' = log_action("ProcurementCommittee", id, action)
            /\ response' = 302
            /\ UNCHANGED <<users, service_units, withholding_profiles, income_tax_rules,
                           personnel, option_values, procurements, material_lines,
                           procurement_suppliers, feedback, sessions, db_lock,
                           analysis, access>>
    IN /\ request' = [user |-> uid, method |-> "POST", endpoint |-> endpoint]
       /\ IF before # 0 THEN Refuse(before)
          ELSE IF ~manager_required(u) THEN Refuse(403)
          ELSE IF Truthy(scope_service_unit_id)
                  /\ ~ensure_committee_scope_or_403(u, scope_service_unit_id)
          THEN Refuse(403)
          ELSE IF ~Truthy(su_id) THEN Refuse(302)
          ELSE IF ~ensure_committee_scope_or_403(u, su_id) THEN Refuse(403)
          ELSE IF form.action = "create"
          THEN IF form.description = "" THEN Refuse(302)
               ELSE commit(Insert(committees, NextId(committees),
                                  [service_unit_id |-> su_id,
                                   description |-> form.description,
                                   president_personnel_id |->
                                      validate_member(form.president_personnel_id),
                                   member1_personnel_id |->
                                      validate_member(form.member1_personnel_id),
                                   member2_personnel_id |->
                                      validate_member(form.member2_personnel_id),
                                   is_active |-> form.is_active]),
                           "CREATE", NextId(committees))
          ELSE IF form.action = "update"
          THEN IF cid = None THEN Refuse(302)
               ELSE IF cid \notin DOMAIN committees THEN Refuse(404)
               ELSE IF committees[cid].service_unit_id # su_id THEN Refuse(403)
               ELSE IF form.description = "" THEN Refuse(302)
               ELSE commit([committees EXCEPT
                              ![cid].description = form.description,
                              ![cid].president_personnel_id =
                                 validate_member(form.president_personnel_id),
                              ![cid].member1_personnel_id =
                                 validate_member(form.member1_personnel_id),
                              ![cid].member2_personnel_id =
                                 validate_member(form.member2_personnel_id),
                              ![cid].is_active = form.is_active],
                           "UPDATE", cid)
          ELSE IF form.action = "delete"
          THEN IF cid = None THEN Refuse(302)
               ELSE IF cid \notin DOMAIN committees THEN Refuse(404)
               ELSE IF committees[cid].service_unit_id # su_id THEN Refuse(403)
               ELSE commit(Delete(committees, cid), "DELETE", cid)
          ELSE Refuse(302)

CommitteeForm ==
    [service_unit_id |-> 1, action |-> "create", id |-> None, description |-> "c",
     president_personnel_id |-> None, member1_personnel_id |-> None,
     member2_personnel_id |-> None, is_active |-> TRUE]

\* create forms: no unit, unit 1 and unit 2, with and without a description
CommitteeCreateForms ==
    {[CommitteeForm EXCEPT !.service_unit_id = su, !.description = d] :
        su \in {None, 1, 2}, d \in {"", "c"}}

\* update forms: either unit, no id or committee 1 or 2, president absent,
\* of unit 1 or of unit 2; one without a description
CommitteeUpdateForms ==
    {[CommitteeForm EXCEPT !.action = "update", !.service_unit_id = su, !.id = id,
                           !.president_personnel_id = p] :
        su \in {1, 2}, id \in {None, 1, 2}, p \in {None, 3, 4}}
    \cup {[CommitteeForm EXCEPT !.action = "update", !.id = 1, !.description = ""]}

\* delete forms: either unit, no id, committee 1 or 2, or a missing one
CommitteeDeleteForms ==
    {[CommitteeForm EXCEPT !.action = "delete", !.service_unit_id = su, !.id = id] :
        su \in {1, 2}, id \in {None, 1, 2, 9}}

CommitteeForms ==
    CommitteeCreateForms \cup CommitteeUpdateForms \cup CommitteeDeleteForms
    \cup {[CommitteeForm EXCEPT !.action = ""]}

\* the manager of unit 1, the viewer of unit 1, the deputy of unit 2, the
\* user without a unit and the anonymous visitor
CommitteeActors == {2, 3, 4, 5, None}

PostCommittees(actors, forms) ==
    \E uid \in actors, form \in forms :
        /\ audit_logs < MaxAuditLogs
        /\ Committees(uid, form)

\* the admin creates committees
AdminCreatesCommittee ==
    \E form \in CommitteeCreateForms :
        /\ audit_logs < MaxAuditLogs
        /\ Committees(1, form)

\* the non-admins send every form; the admin only creates
NextCommittees == PostCommittees(CommitteeActors, CommitteeForms) \/ AdminCreatesCommittee

InitCommitteesSpec ==
    /\ InitMaster
    /\ procurements = Empty
    /\ material_lines = Empty
    /\ procurement_suppliers = Empty
    /\ audit_logs = 0
    /\ feedback = 0
    /\ sessions = NoSessions
    /\ db_lock = None
    /\ request = NoRequest
    /\ response = 0
    /\ analysis = {}
    /\ access = {}

SpecCommittees == InitCommitteesSpec /\ [][NextCommittees]_vars

\* the committees that a step creates, changes or removes
TouchedCommittees ==
    {i \in DOMAIN committees \cup DOMAIN committees' :
        \/ i \notin DOMAIN committees
        \/ i \notin DOMAIN committees'
        \/ committees[i] # committees'[i]}

\* the unit of committee i before the step, or after it when it is new
UnitOfCommittee(i) ==
    IF i \in DOMAIN committees THEN committees[i].service_unit_id
    ELSE committees'[i].service_unit_id

\* C20: a committees request of a non-admin creates, changes or removes a
\* committee only when the actor is manager or deputy of their unit and the
\* committee belongs to that unit, whatever service_unit_id and id the
\* form carries.
C20_CommitteeScope ==
    [][(committees' # committees /\ ~users[request'.user].is_admin) =>
          /\ is_manager(users[request'.user]) \/ is_deputy(users[request'.user])
          /\ \A i \in TouchedCommittees :
                /\ UnitOfCommittee(i) = users[request'.user].service_unit_id
                /\ i \in DOMAIN committees' =>
                      committees'[i].service_unit_id = users[request'.user].service_unit_id]_vars

\* the manager of unit 1 has deleted committee 1 and was then refused on
\* committee 2 of unit 2, which is as it was
C20_Witness ==
    /\ request.user = 2
    /\ request.endpoint = "settings.committees"
    /\ response = 403
    /\ 1 \notin DOMAIN committees
    /\ 2 \in DOMAIN committees /\ committees[2] = InitCommittees[2]

-----------------------------------------------------------------------------
(* Income-tax rules and withholding profiles assigned by the manager of    *)
(* unit 1 while the admin activates, deactivates and deletes them          *)

AssignActors == {2}

MasterActors == {1}

\* forms naming no rule, the active rule 1, the inactive rule 2 and a missing
\* rule 9, with no profile or profile 1; one naming a missing profile
AssignForms ==
    {[EmptyForm EXCEPT !.service_unit_id = 1, !.description = "d", !.hop_approval = "H1",
                       !.send_to_expenses = TRUE, !.income_tax_rule_id = rule,
                       !.withholding_profile_id = wp] :
        rule \in {None, 1, 2, 9}, wp \in {None, 1}}
    \cup {[EmptyForm EXCEPT !.service_unit_id = 1, !.description = "d",
                            !.hop_approval = "H1", !.send_to_expenses = TRUE,
                            !.income_tax_rule_id = 1, !.withholding_profile_id = 9]}

\* rule 1 or 2 updated with the values of rule 1, active or not; rule 2
\* deleted; an update without a description
IncomeTaxRuleForms ==
    {[action |-> "update", id |-> rid, description |-> "FE", rate_percent |-> 800,
      threshold_amount |-> 150, is_active |-> active] :
        rid \in {1, 2}, active \in BOOLEAN}
    \cup {[action |-> "delete", id |-> 2, description |-> "", rate_percent |-> None,
           threshold_amount |-> None, is_active |-> FALSE],
          [action |-> "update", id |-> 1, description |-> "", rate_percent |-> None,
           threshold_amount |-> None, is_active |-> FALSE]}

\* profile 1 updated with its own values, active or not
WithholdingProfileForms ==
    {[action |-> "update", id |-> 1, description |-> "WP", mt_eloa_percent |-> 600,
      eadhsy_percent |-> 10, withholding1_percent |-> None,
      withholding2_percent |-> None, is_active |-> active] : active \in BOOLEAN}

PostIncomeTaxRules(actors, forms) ==
    \E uid \in actors, form \in forms :
        /\ audit_logs < MaxAuditLogs
        /\ IncomeTaxRulesRoute(uid, form)

PostWithholdingProfiles(actors, forms) ==
    \E uid \in actors, form \in forms :
        /\ audit_logs < MaxAuditLogs
        /\ WithholdingProfilesRoute(uid, form)

NextAssign ==
    \/ PostCreateProcurement(AssignActors, AssignForms)
    \/ PostEditProcurement(AssignActors, AssignForms)
    \/ PostImplementationProcurement(AssignActors, AssignForms)
    \/ PostIncomeTaxRules(MasterActors, IncomeTaxRuleForms)
    \/ PostWithholdingProfiles(MasterActors, WithholdingProfileForms)

SpecAssign == Init /\ [][NextAssign]_vars

\* row id of table exists and is active
InForce(table, id) == id \in DOMAIN table /\ table[id].is_active

\* the step is a create / edit / implementation request
ProcurementRequest ==
    request'.endpoint \in {"procurements.create_procurement",
                           "procurements.edit_procurement",
                           "procurements.implementation_procurement"}

\* procurement pid holds after the step a non-null value in column that it
\* did not hold before
NewlyAssigned(pid, column) ==
    /\ procurements'[pid][column] # None
    /\ pid \in DOMAIN procurements => procurements[pid][column] # procurements'[pid][column]

\* C21: a create / edit / implementation request that sets a procurement's
\* income_tax_rule_id or withholding_profile_id to a new non-null value
\* names a row that exists and is active at that moment, and a request that
\* names a missing or inactive rule or profile commits nothing.
C21_AssignOnlyActive ==
    [][/\ ProcurementRequest =>
             \A pid \in DOMAIN procurements' :
                /\ NewlyAssigned(pid, "income_tax_rule_id") =>
                      InForce(income_tax_rules, procurements'[pid].income_tax_rule_id)
                /\ NewlyAssigned(pid, "withholding_profile_id") =>
                      InForce(withholding_profiles, procurements'[pid].withholding_profile_id)
       /\ \A uid \in AssignActors, form \in AssignForms :
             (\/ /\ form.income_tax_rule_id # None
                 /\ ~InForce(income_tax_rules, form.income_tax_rule_id)
              \/ /\ form.withholding_profile_id # None
                 /\ ~InForce(withholding_profiles, form.withholding_profile_id))
             => /\ CreateProcurement(uid, form) => UNCHANGED db
                /\ \A pid \in DOMAIN procurements :
                      (EditProcurement(uid, pid, form)
                         \/ ImplementationProcurement(uid, pid, form)) => UNCHANGED db]_vars

\* the one commit so far created a procurement with rule 1 and profile 1,
\* and the edit that followed was refused
C21_Witness ==
    /\ \E pid \in DOMAIN procurements :
          /\ procurements[pid].income_tax_rule_id = 1
          /\ procurements[pid].withholding_profile_id = 1
    /\ request.endpoint = "procurements.edit_procurement"
    /\ request.user = 2
    /\ response = 302
    /\ audit_logs = 1

\* the form names the rule and the profile that procurement p already
\* holds, each of them present, and one of them has been deactivated
ResubmitsDeactivated(p, form) ==
    /\ form.income_tax_rule_id = p.income_tax_rule_id
    /\ form.withholding_profile_id = p.withholding_profile_id
    /\ p.income_tax_rule_id # None => p.income_tax_rule_id \in DOMAIN income_tax_rules
    /\ p.withholding_profile_id # None =>
          p.withholding_profile_id \in DOMAIN withholding_profiles
    /\ \/ /\ p.income_tax_rule_id # None
          /\ ~InForce(income_tax_rules, p.income_tax_rule_id)
       \/ /\ p.withholding_profile_id # None
          /\ ~InForce(withholding_profiles, p.withholding_profile_id)

\* the step commits and procurement pid keeps its rule and its profile
AcceptedKeeping(pid) ==
    /\ audit_logs' # audit_logs
    /\ procurements'[pid].income_tax_rule_id = procurements[pid].income_tax_rule_id
    /\ procurements'[pid].withholding_profile_id = procurements[pid].withholding_profile_id

\* C22: a step that deactivates a rule or a profile leaves every reference
\* to it in place, and an edit_procurement or implementation_procurement
\* POST that resubmits the deactivated rule or profile unchanged is
\* accepted and keeps the reference.
C22_PersistsAfterDeactivation ==
    [][/\ \A pid \in DOMAIN procurements :
             /\ (/\ InForce(income_tax_rules, procurements[pid].income_tax_rule_id)
                 /\ procurements[pid].income_tax_rule_id \in DOMAIN income_tax_rules'
                 /\ ~InForce(income_tax_rules', procurements[pid].income_tax_rule_id))
                => procurements'[pid].income_tax_rule_id = procurements[pid].income_tax_rule_id
             /\ (/\ InForce(withholding_profiles, procurements[pid].withholding_profile_id)
                 /\ procurements[pid].withholding_profile_id \in DOMAIN withholding_profiles'
                 /\ ~InForce(withholding_profiles', procurements[pid].withholding_profile_id))
                => procurements'[pid].withholding_profile_id
                      = procurements[pid].withholding_profile_id
       /\ \A uid \in AssignActors, pid \in DOMAIN procurements, form \in AssignForms :
             ResubmitsDeactivated(procurements[pid], form) =>
                /\ EditProcurement(uid, pid, form) => AcceptedKeeping(pid)
                /\ (/\ is_in_implementation_phase(procurements[pid])
                    /\ ImplementationProcurement(uid, pid, form)) => AcceptedKeeping(pid)]_vars

-----------------------------------------------------------------------------
(* Material lines and supplier participations added and deleted by the     *)
(* manager of unit 1 and the deputy of unit 2, each on the procurements of *)
(* the own unit, with any line id and any link id in the delete URLs       *)

DeleteActors == {2, 4}

NextDelete ==
    \/ PostCreateProcurement(DeleteActors, GuardProcurementForms)
    \/ PostAddMaterialLine(DeleteActors, GuardMaterialLineForms)
    \/ PostDeleteMaterialLine(DeleteActors)
    \/ PostAddProcurementSupplier(DeleteActors, GuardSupplierForms)
    \/ PostDeleteProcurementSupplier(DeleteActors)

SpecDelete == Init /\ [][NextDelete]_vars

\* row id of a table belongs to procurement pid, a procurement of the unit
\* of user uid
OwnedThroughUrl(uid, pid, table, id) ==
    /\ table[id].procurement_id = pid
    /\ users[uid].service_unit_id # None
    /\ procurements[table[id].procurement_id].service_unit_id = users[uid].service_unit_id

\* C23: a committed delete_material_line or delete_procurement_supplier of
\* a non-admin actor removes a line / participation that belongs to the
\* procurement named by procurement_id in the URL, a procurement of the
\* actor's own service unit.
C23_DeleteWithinOwnUnit ==
    [][\A uid \in DeleteActors, pid \in ProcurementIds :
          /\ \A line_id \in DOMAIN material_lines :
                (Commits /\ DeleteMaterialLine(uid, pid, line_id))
                   => OwnedThroughUrl(uid, pid, material_lines, line_id)
          /\ \A link_id \in DOMAIN procurement_suppliers :
                (Commits /\ DeleteProcurementSupplier(uid, pid, link_id))
                   => OwnedThroughUrl(uid, pid, procurement_suppliers, link_id)]_vars

-----------------------------------------------------------------------------
(* Procurements created and edited by the admin, the manager of unit 1 and *)
(* the deputy of unit 2, with forms that name unit 2 or no unit            *)

UnitActors == {1, 2, 4}

UnitForms ==
    {[EmptyForm EXCEPT !.service_unit_id = su, !.description = "d",
                       !.hop_approval = "H1", !.send_to_expenses = TRUE] :
        su \in {None, 2}}

NextUnit ==
    \/ PostCreateProcurement(UnitActors, UnitForms)
    \/ PostEditProcurement(UnitActors, UnitForms)
    \/ PostImplementationProcurement(UnitActors, UnitForms)
    \/ PostAddMaterialLine(UnitActors, GuardMaterialLineForms)
    \/ PostDeleteMaterialLine(UnitActors)

SpecUnit == Init /\ [][NextUnit]_vars

\* the request of the step is made by somebody who is not an admin
NonAdminRequest ==
    request'.user = None \/ ~users[request'.user].is_admin

\* C24: a procurement created by a non-admin gets the creator's own,
\* non-null service unit whatever the form carries, and a step requested by
\* a non-admin changes the service_unit_id of no existing procurement.
C24_UnitFrame ==
    [][/\ \A uid \in UnitActors, form \in UnitForms :
             (~users[uid].is_admin /\ Commits /\ CreateProcurement(uid, form))
                => /\ users[uid].service_unit_id # None
                   /\ procurements'[NextId(procurements)].service_unit_id
                         = users[uid].service_unit_id
       /\ NonAdminRequest
             => \A pid \in DOMAIN procurements :
                   /\ pid \in DOMAIN procurements'
                   /\ procurements'[pid].service_unit_id
                         = procurements[pid].service_unit_id]_vars

\* the manager of unit 1 has created procurement 1 and then saved an edit
\* of it: no form names unit 1, and the procurement is in unit 1
C24_Witness ==
    /\ request = [user |-> 2, method |-> "POST", endpoint |-> "procurements.edit_procurement"]
    /\ response = 302
    /\ audit_logs = 2
    /\ DOMAIN procurements = {1}
    /\ procurements[1].service_unit_id = 1

-----------------------------------------------------------------------------
(* Edit and implementation forms of the manager of unit 1 that are valid   *)
(* or break one validation: a handler of another unit, an inactive or      *)
(* missing rule, a missing profile, a committee of another unit or a       *)
(* missing one, a status or a stage that is no option                      *)

RejectActors == {2}

ValidForm ==
    [EmptyForm EXCEPT !.description = "e", !.hop_approval = "H1",
                      !.send_to_expenses = TRUE, !.status = "S1", !.stage = "T1",
                      !.handler_personnel_id = 3, !.income_tax_rule_id = 1,
                      !.withholding_profile_id = 1, !.committee_id = 1,
                      !.adam_aay = "A1"]

RejectForms ==
    {ValidForm,
     [ValidForm EXCEPT !.committee_id = None, !.adam_aay = ""],
     [ValidForm EXCEPT !.handler_personnel_id = 4],
     [ValidForm EXCEPT !.income_tax_rule_id = 2],
     [ValidForm EXCEPT !.income_tax_rule_id = 9],
     [ValidForm EXCEPT !.withholding_profile_id = 9],
     [ValidForm EXCEPT !.committee_id = 2],
     [ValidForm EXCEPT !.committee_id = 9],
     [ValidForm EXCEPT !.status = "SX"],
     [ValidForm EXCEPT !.stage = "TX"]}

NextReject ==
    \/ PostCreateProcurement(RejectActors, GuardProcurementForms)
    \/ PostEditProcurement(RejectActors, RejectForms)
    \/ PostImplementationProcurement(RejectActors, RejectForms)

SpecReject == Init /\ [][NextReject]_vars

\* the form names a rule or a profile that is missing or inactive
InvalidRuleOrProfile(form) ==
    \/ Truthy(form.income_tax_rule_id) /\ ~InForce(income_tax_rules, form.income_tax_rule_id)
    \/ Truthy(form.withholding_profile_id)
          /\ ~InForce(withholding_profiles, form.withholding_profile_id)

\* the form of an edit names a handler who is no active personnel of the
\* procurement's unit
InvalidHandler(p, form) ==
    /\ Truthy(form.handler_personnel_id)
    /\ ~(/\ form.handler_personnel_id \in DOMAIN personnel
         /\ personnel[form.handler_personnel_id].is_active
         /\ personnel[form.handler_personnel_id].service_unit_id = p.service_unit_id)

\* the form of an implementation names a committee that is missing,
\* inactive or of another unit, or a status or stage that is no option
InvalidImplementation(p, form) ==
    \/ /\ Truthy(form.committee_id)
       /\ ~(/\ form.committee_id \in DOMAIN committees
            /\ committees[form.committee_id].is_active
            /\ committees[form.committee_id].service_unit_id = p.service_unit_id)
    \/ form.status # "" /\ form.status \notin option_values.KATASTASH
    \/ form.stage # "" /\ form.stage \notin option_values.STADIO

\* C26: an edit_procurement or implementation_procurement POST of an
\* admitted actor whose form fails a validation leaves every committed
\* procurement unchanged in every field and commits no audit entry.
C26_RejectedLeavesUnchanged ==
    [][\A uid \in RejectActors, pid \in DOMAIN procurements, form \in RejectForms :
          /\ (/\ EditProcurement(uid, pid, form)
              /\ InvalidHandler(procurements[pid], form) \/ InvalidRuleOrProfile(form))
                => procurements' = procurements /\ audit_logs' = audit_logs
          /\ (/\ ImplementationProcurement(uid, pid, form)
              /\ InvalidImplementation(procurements[pid], form) \/ InvalidRuleOrProfile(form))
                => procurements' = procurements /\ audit_logs' = audit_logs]_vars

\* procurement 1, in the implementation phase, was saved once by the valid
\* edit form; the implementation POST that followed was answered by a
\* redirect without a commit
C26_Witness ==
    /\ request = [user |-> 2, method |-> "POST",
                  endpoint |-> "procurements.implementation_procurement"]
    /\ response = 302
    /\ audit_logs = 2
    /\ DOMAIN procurements = {1}
    /\ is_in_implementation_phase(procurements[1])
    /\ procurements[1].description = "e"
    /\ procurements[1].committee_id = None

-----------------------------------------------------------------------------
(* Procurements created, edited and implemented by the admin and by the    *)
(* manager of unit 1, with forms naming either unit and either committee   *)

CommitteeRefActors == {1, 2}

CommitteeRefForms ==
    {[EmptyForm EXCEPT !.service_unit_id = su, !.description = "d",
                       !.hop_approval = "H1", !.send_to_expenses = TRUE,
                       !.committee_id = c] :
        su \in {1, 2}, c \in {None, 1, 2}}

NextCommitteeRef ==
    \/ PostCreateProcurement(CommitteeRefActors, CommitteeRefForms)
    \/ PostEditProcurement(CommitteeRefActors, CommitteeRefForms)
    \/ PostImplementationProcurement(CommitteeRefActors, CommitteeRefForms)

SpecCommitteeRef == Init /\ [][NextCommitteeRef]_vars

\* C27: in every committed state reached by create, edit and
\* implementation requests, the admin's included, a procurement with a
\* committee references a committee of the procurement's own service unit.
C27_CommitteeOfOwnUnit ==
    \A pid \in DOMAIN procurements :
        procurements[pid].committee_id # None
           => /\ procurements[pid].committee_id \in DOMAIN committees
              /\ committees[procurements[pid].committee_id].service_unit_id
                    = procurements[pid].service_unit_id

-----------------------------------------------------------------------------
(* Procurements in and out of the implementation phase: the manager of     *)
(* unit 1 creates, edits, opens and posts the implementation page with     *)
(* forms that set or clear hop_approval and send_to_expenses               *)

PhaseActors == {2}

PhaseForms ==
    {[EmptyForm EXCEPT !.description = "d", !.hop_approval = hop,
                       !.send_to_expenses = ste, !.committee_id = 1,
                       !.adam_aay = "A1"] :
        hop \in {"", "H1"}, ste \in BOOLEAN}
    \cup {[EmptyForm EXCEPT !.description = "d", !.hop_approval = "H1",
                            !.send_to_expenses = TRUE]}

RequestImplementationProcurement(actors) ==
    \E uid \in actors, pid \in ProcurementIds :
        /\ audit_logs < MaxAuditLogs
        /\ GetImplementationProcurement(uid, pid)

NextPhase ==
    \/ PostCreateProcurement(PhaseActors, PhaseForms)
    \/ PostEditProcurement(PhaseActors, PhaseForms)
    \/ PostImplementationProcurement(PhaseActors, PhaseForms)
    \/ RequestImplementationProcurement(PhaseActors)

SpecPhase == Init /\ [][NextPhase]_vars

\* send_to_expenses is set and hop_approval is not empty
InPhase(p) == p.send_to_expenses /\ p.hop_approval \notin {NoneText, ""}

\* C28: a GET or POST of implementation_procurement on a procurement that
\* is not in the implementation phase is answered by a redirect and changes
\* nothing, and no step writes committee_id or adam_aay of a procurement
\* that is outside the phase.
C28_OnlyInPhase ==
    [][/\ \A uid \in PhaseActors, pid \in DOMAIN procurements :
             ~InPhase(procurements[pid])
                => /\ GetImplementationProcurement(uid, pid)
                         => response' = 302 /\ UNCHANGED db
                   /\ \A form \in PhaseForms :
                         ImplementationProcurement(uid, pid, form)
                            => response' = 302 /\ UNCHANGED db
       /\ \A pid \in DOMAIN procurements :
             ~InPhase(procurements[pid])
                => /\ procurements'[pid].committee_id = procurements[pid].committee_id
                   /\ procurements'[pid].adam_aay = procurements[pid].adam_aay]_vars

\* procurement 1 has an approval but is not sent to expenses; the
\* implementation POST on it was answered by a redirect, nothing but the
\* create is committed and no committee is set
C28_Witness ==
    /\ request = [user |-> 2, method |-> "POST",
                  endpoint |-> "procurements.implementation_procurement"]
    /\ response = 302
    /\ audit_logs = 1
    /\ DOMAIN procurements = {1}
    /\ procurements[1].hop_approval = "H1"
    /\ ~procurements[1].send_to_expenses
    /\ procurements[1].committee_id = None
    /\ procurements[1].adam_aay = NoneText

-----------------------------------------------------------------------------
(* The bootstrap of the first admin on an empty database: seed_admin       *)
(* requests of two sessions, step by step, and the personnel edits of the  *)
(* admin once there is one                                                 *)

SeedSessions == {1, 2}

IdleSeedSession == [pc |-> "idle", username |-> "", response |-> 0, outcome |-> ""]

SeedForms == {[username |-> "a", password |-> "pw"],
              [username |-> "b", password |-> "pw"],
              [username |-> "a", password |-> ""]}

\* the agm of the system personnel record of seed_admin
SystemAgm == "SYS-ADMIN-001"

PersonnelForms == [agm : {SystemAgm, "AGM-7", ""}]

\* personnel.agm is unique: the INSERT of agm violates the constraint
AgmTaken(agm) == \E i \in DOMAIN personnel : personnel[i].agm = agm

\* "if User.query.count() > 0" and the validation of the form
SeedAdminCheck(s, form) ==
    /\ sessions[s].pc = "idle"
    /\ UNCHANGED <<users, master, procurements, material_lines, procurement_suppliers,
                   audit_logs, feedback, db_lock, request, response, analysis, access>>
    /\ IF DOMAIN users # {}
       THEN sessions' = [sessions EXCEPT ![s] = [IdleSeedSession EXCEPT
                            !.username = form.username, !.response = 302,
                            !.outcome = "blocked"]]
       ELSE IF form.username = "" \/ form.password = ""
       THEN sessions' = [sessions EXCEPT ![s] = [IdleSeedSession EXCEPT
                            !.username = form.username, !.response = 200,
                            !.outcome = "invalid"]]
       ELSE sessions' = [sessions EXCEPT ![s] = [IdleSeedSession EXCEPT
                            !.username = form.username, !.pc = "checked"]]

\* db.session.add(personnel); db.session.flush(): the INSERT of the system
\* personnel record; an IntegrityError is not caught by the view
SeedAdminFlush(s) ==
    /\ sessions[s].pc = "checked"
    /\ db_lock = None
    /\ IF AgmTaken(SystemAgm)
       THEN /\ SessionEnds(s, 500, "IntegrityError")
            /\ UNCHANGED db_lock
       ELSE /\ sessions' = [sessions EXCEPT ![s].pc = "flushed"]
            /\ db_lock' = s
            /\ UNCHANGED <<users, master, procurements, material_lines,
                           procurement_suppliers, audit_logs, feedback, request,
                           response, analysis, access>>

\* the flush while another session holds the write lock until the busy
\* timeout: OperationalError
SeedAdminBusy(s) ==
    /\ sessions[s].pc = "checked"
    /\ db_lock \notin {None, s}
    /\ SessionEnds(s, 500, "OperationalError")
    /\ UNCHANGED db_lock

\* db.session.add(user); db.session.commit(): the personnel record and the
\* admin user become visible together; a taken username rolls both back
SeedAdminCommit(s) ==
    LET personnel_id == NextId(personnel)
        user == [username |-> sessions[s].username, is_admin |-> TRUE,
                 personnel_id |-> personnel_id, service_unit_id |-> None,
                 theme |-> "default"]
    IN /\ sessions[s].pc = "flushed"
       /\ db_lock = s
       /\ db_lock' = None
       /\ UNCHANGED <<service_units, withholding_profiles, income_tax_rules, committees,
                      option_values, procurements, material_lines, procurement_suppliers,
                      audit_logs, feedback, request, response, analysis, access>>
       /\ IF \E u \in DOMAIN users : users[u].username = sessions[s].username
          THEN /\ sessions' = [sessions EXCEPT ![s].pc = "idle", ![s].response = 500,
                                               ![s].outcome = "IntegrityError"]
               /\ UNCHANGED <<users, personnel>>
          ELSE /\ personnel' = Insert(personnel, personnel_id,
                                      [agm |-> SystemAgm, is_active |-> TRUE,
                                       service_unit_id |-> None])
               /\ users' = Insert(users, NextId(users), user)
               /\ sessions' = [sessions EXCEPT ![s].pc = "idle", ![s].response = 302,
                                               ![s].outcome = "seeded"]

\* POST /admin/personnel/<id>/edit
EditPersonnel(uid, personnel_id, form) ==
    LET endpoint == "admin.edit_personnel"
        before == BeforeView(uid, "POST", endpoint)
    IN /\ request' = [user |-> uid, method |-> "POST", endpoint |-> endpoint]
       /\ IF before # 0 THEN Refuse(before)
          ELSE IF ~admin_required(users[uid]) THEN Refuse(403)
          ELSE IF personnel_id \notin DOMAIN personnel THEN Refuse(404)
          ELSE IF form.agm = "" THEN Refuse(302)
          ELSE IF \E i \in DOMAIN personnel \ {personnel_id} : personnel[i].agm = form.agm
               THEN Refuse(302)
          ELSE IF db_lock # None THEN Refuse(500)
          ELSE /\ personnel' = [personnel EXCEPT ![personnel_id].agm = form.agm]
               /\ audit_logs' = log_action("Personnel", personnel_id, "UPDATE")
               /\ response' = 302
               /\ UNCHANGED <<users, service_units, withholding_profiles, income_tax_rules,
                              committees, option_values, procurements, material_lines,
                              procurement_suppliers, feedback, sessions, db_lock,
                              analysis, access>>

InitSeed ==
    /\ users = Empty
    /\ service_units = Empty
    /\ personnel = Empty
    /\ withholding_profiles = Empty
    /\ income_tax_rules = Empty
    /\ committees = Empty
    /\ option_values = NoOptions
    /\ procurements = Empty
    /\ material_lines = Empty
    /\ procurement_suppliers = Empty
    /\ audit_logs = 0
    /\ feedback = 0
    /\ sessions = [s \in SeedSessions |-> IdleSeedSession]
    /\ db_lock = None
    /\ request = NoRequest
    /\ response = 0
    /\ analysis = {}
    /\ access = {}

SeedCheck == \E s \in SeedSessions, form \in SeedForms : SeedAdminCheck(s, form)

SeedFlush == \E s \in SeedSessions : SeedAdminFlush(s)

SeedBusy == \E s \in SeedSessions : SeedAdminBusy(s)

SeedCommit == \E s \in SeedSessions : SeedAdminCommit(s)

PostEditPersonnel ==
    \E uid \in DOMAIN users, personnel_id \in DOMAIN personnel, form \in PersonnelForms :
        /\ audit_logs < MaxAuditLogs
        /\ EditPersonnel(uid, personnel_id, form)

NextSeed == SeedCheck \/ SeedFlush \/ SeedBusy \/ SeedCommit \/ PostEditPersonnel

SpecSeed == InitSeed /\ [][NextSeed]_vars

\* the seed_admin requests alone
NextSeedOnly == SeedCheck \/ SeedFlush \/ SeedBusy \/ SeedCommit

SpecSeedOnly == InitSeed /\ [][NextSeedOnly]_vars

\* C29: under every interleaving of seed_admin requests with other
\* requests at most one user is ever created through seed_admin (here the
\* only route that creates users), each with its personnel record in the
\* same commit, and once a user exists no step of a seed_admin request
\* changes users or personnel.
C29_SeedOnce ==
    [][/\ Cardinality(DOMAIN users') <= 1
       /\ users' # users => Cardinality(DOMAIN personnel') = Cardinality(DOMAIN personnel) + 1
       /\ (DOMAIN users # {} /\ (SeedCheck \/ SeedFlush \/ SeedBusy \/ SeedCommit))
             => UNCHANGED <<users, personnel>>]_vars

-----------------------------------------------------------------------------
(* The two procurement decorators on one actor and one procurement, over    *)
(* every combination of admin flag, unit membership and manager/deputy link *)

UnitIds == {1, 2}
PersonnelIds == {1, 2}

UserRows == [username : {"u1"}, is_admin : BOOLEAN, personnel_id : PersonnelIds,
             service_unit_id : UnitIds \cup {None}, theme : {"default"}]
ServiceUnitRows == [manager_personnel_id : PersonnelIds \cup {None},
                    deputy_personnel_id : PersonnelIds \cup {None}]

InitAccess ==
    /\ \E u \in UserRows : users = (1 :> u)
    /\ service_units \in [UnitIds -> ServiceUnitRows]
    /\ \E su \in UnitIds \cup {None} :
          procurements = (1 :> ProcurementRow(su, "d", None, NoneText, FALSE, None, None))
    /\ material_lines = Empty
    /\ procurement_suppliers = Empty
    /\ withholding_profiles = Empty
    /\ income_tax_rules = Empty
    /\ personnel = Empty
    /\ committees = Empty
    /\ option_values = NoOptions
    /\ audit_logs = 0
    /\ feedback = 0
    /\ sessions = NoSessions
    /\ db_lock = None
    /\ request = NoRequest
    /\ response = 0
    /\ analysis = {}
    /\ access = {}

\* a request to a view wrapped in @procurement_access_required
ViewCheck(uid, pid) ==
    /\ access' = access \cup {[user |-> uid, procurement_id |-> pid, check |-> "view",
                               allowed |-> procurement_access_required(users[uid], procurements[pid])]}
    /\ UNCHANGED <<db, request, response, analysis>>

\* a request to a view wrapped in @procurement_edit_required
EditCheck(uid, pid) ==
    /\ access' = access \cup {[user |-> uid, procurement_id |-> pid, check |-> "edit",
                               allowed |-> procurement_edit_required(users[uid], procurements[pid])]}
    /\ UNCHANGED <<db, request, response, analysis>>

AnyViewCheck == \E uid \in DOMAIN users, pid \in DOMAIN procurements : ViewCheck(uid, pid)
AnyEditCheck == \E uid \in DOMAIN users, pid \in DOMAIN procurements : EditCheck(uid, pid)

NextAccess == AnyViewCheck \/ AnyEditCheck

SpecAccess == InitAccess /\ [][NextAccess]_vars

\* the actor is manager or deputy of the unit su
ManagerOrDeputyOf(u, su) ==
    /\ su \in DOMAIN service_units
    /\ \/ service_units[su].manager_personnel_id = u.personnel_id
       \/ service_units[su].deputy_personnel_id = u.personnel_id

\* C2: the view check lets an actor through iff the actor is admin, or has a
\* service unit and it equals the procurement's; a non-admin without a unit
\* is refused, also for a procurement without a unit.
C2_ViewIff ==
    \A a \in access :
        a.check = "view" =>
            LET u == users[a.user]
                p == procurements[a.procurement_id]
            IN a.allowed <=> (\/ u.is_admin
                              \/ (u.service_unit_id # None
                                   /\ u.service_unit_id = p.service_unit_id))

\* a non-admin without a unit was refused on a procurement without a unit
C2_Witness ==
    \E a \in access :
        /\ a.check = "view" /\ ~a.allowed
        /\ ~users[a.user].is_admin
        /\ users[a.user].service_unit_id = None
        /\ procurements[a.procurement_id].service_unit_id = None

\* C3: the edit check lets an actor through iff the actor is admin, or is in
\* the procurement's unit and manager or deputy of it; a same-unit viewer
\* passes view and fails edit; a manager of another unit fails both.
C3_EditIff ==
    /\ \A a \in access :
          a.check = "edit" =>
            LET u == users[a.user]
                p == procurements[a.procurement_id]
            IN a.allowed <=> (\/ u.is_admin
                              \/ (/\ u.service_unit_id # None
                                  /\ u.service_unit_id = p.service_unit_id
                                  /\ ManagerOrDeputyOf(u, p.service_unit_id)))
    /\ \A a \in access :
          LET u == users[a.user]
              p == procurements[a.procurement_id]
          IN /\ (/\ ~u.is_admin /\ u.service_unit_id # None
                 /\ u.service_unit_id = p.service_unit_id
                 /\ ~ManagerOrDeputyOf(u, u.service_unit_id))
                => (a.allowed <=> a.check = "view")
             /\ (/\ ~u.is_admin /\ u.service_unit_id # None
                 /\ u.service_unit_id # p.service_unit_id
                 /\ ManagerOrDeputyOf(u, u.service_unit_id))
                => ~a.allowed

\* a same-unit viewer went through both checks: view allowed, edit refused
C3_Witness ==
    \E a, b \in access :
        /\ a.check = "view" /\ a.allowed
        /\ b.check = "edit" /\ ~b.allowed
        /\ ~users[a.user].is_admin
        /\ users[a.user].service_unit_id = procurements[a.procurement_id].service_unit_id

\* C4: whenever the edit check allows an actor on a procurement, the view
\* check allows the same actor on the same procurement.
C4_EditImpliesView ==
    \A a, b \in access :
        (/\ a.check = "edit" /\ a.allowed
         /\ b.check = "view"
         /\ b.user = a.user /\ b.procurement_id = a.procurement_id)
        => b.allowed

\* a non-admin manager passed the edit check and the view check
C4_Witness ==
    \E a, b \in access :
        /\ a.check = "edit" /\ a.allowed
        /\ b.check = "view" /\ b.allowed
        /\ b.user = a.user /\ b.procurement_id = a.procurement_id
        /\ ~users[a.user].is_admin

-----------------------------------------------------------------------------
(* The POST branches of edit_procurement and implementation_procurement on *)
(* one actor and one procurement in the implementation phase, over every   *)
(* combination of admin flag, unit membership and manager/deputy link      *)

AdmitForms ==
    {[EmptyForm EXCEPT !.service_unit_id = 1, !.description = "d",
                       !.hop_approval = "H1", !.send_to_expenses = TRUE]}

InitAdmit ==
    /\ \E u \in UserRows : users = (1 :> u)
    /\ service_units \in [UnitIds -> ServiceUnitRows]
    /\ \E su \in UnitIds \cup {None} :
          procurements = (1 :> ProcurementRow(su, "d", None, "H1", TRUE, None, None))
    /\ material_lines = Empty
    /\ procurement_suppliers = Empty
    /\ withholding_profiles = Empty
    /\ income_tax_rules = Empty
    /\ personnel = Empty
    /\ committees = Empty
    /\ option_values = NoOptions
    /\ audit_logs = 0
    /\ feedback = 0
    /\ sessions = NoSessions
    /\ db_lock = None
    /\ request = NoRequest
    /\ response = 0
    /\ analysis = {}
    /\ access = {}

NextAdmit ==
    \/ PostEditProcurement(DOMAIN users, AdmitForms)
    \/ PostImplementationProcurement(DOMAIN users, AdmitForms)

SpecAdmit == InitAdmit /\ [][NextAdmit]_vars

\* the POST of the step went past every access check: it was answered
\* neither 401 nor 403, and with a valid form it is committed
ReachesMutation == response' = 302 /\ Commits

\* C25: an edit_procurement or implementation_procurement POST (the
\* procurement being in the implementation phase, the form valid) reaches
\* the mutation exactly when procurement_edit_required admits the actor on
\* the procurement: a non-admin reaches it iff the own unit is the
\* procurement's and the actor is manager or deputy of that unit.
C25_PostAdmitsAsEditCheck ==
    [][\A uid \in DOMAIN users, pid \in DOMAIN procurements, form \in AdmitForms :
          (EditProcurement(uid, pid, form) \/ ImplementationProcurement(uid, pid, form))
             => LET u == users[uid]
                    p == procurements[pid]
                IN /\ ReachesMutation <=> procurement_edit_required(u, p)
                   /\ ~u.is_admin
                         => (ReachesMutation <=> (/\ u.service_unit_id # None
                                                  /\ u.service_unit_id = p.service_unit_id
                                                  /\ ManagerOrDeputyOf(u, p.service_unit_id)))]_vars

\* a deputy who is not the manager of the own unit has saved the
\* procurement through both routes
C25_Witness ==
    /\ request.endpoint = "procurements.implementation_procurement"
    /\ response = 302
    /\ audit_logs = 2
    /\ ~users[1].is_admin
    /\ users[1].service_unit_id # None
    /\ service_units[users[1].service_unit_id].deputy_personnel_id = users[1].personnel_id
    /\ service_units[users[1].service_unit_id].manager_personnel_id # users[1].personnel_id

=============================================================================
